---- MODULE Spec2Model ----
(***************************************************************************)
(* A state-machine model of the accelerator arbitration and early boot     *)
(* code of esp-wireless-drivers-3rdparty:                                  *)
(*   esp-mbedtls/port/sha/parallel_engine/sha.c   (SHA engine arbitration) *)
(*   components/esp_system/port/cpu_start.c       (dual-core bring-up)     *)
(*                                                                         *)
(* One action per statement group of the C code; the program counter of    *)
(* every agent (task) / core is part of the state, so that every           *)
(* interleaving the scheduler can produce is a behaviour of the model.     *)
(***************************************************************************)
EXTENDS Integers, Sequences, FiniteSets, TLC

(***************************************************************************)
(* Bounds of the model (not program constants).                            *)
(***************************************************************************)
NumAgents == 2        \* concurrent agents (tasks) using the SHA engines
MaxCalls == 3         \* lock / try-lock calls made in a run, all agents together
MaxSessions == 3      \* the same, when the agents run hash sessions
MaxBlocks == 2        \* blocks fed in one streaming session
NumBlockValues == 1   \* distinct data blocks an agent can feed
MaxNested == 6        \* lock / try-lock calls in a run with nested locks

(***************************************************************************)
(* Program constants of sha.c.                                             *)
(***************************************************************************)
OK == 0                    \* sem_wait()'s return after taking the semaphore
ERROR == -1                \* sem_wait()'s return when the wait is interrupted
pdFALSE == 0               \* sha.c:60
pdTRUE == 1                \* sha.c:61
\* TickType_t values are kept as text: 0xffffffff is no 32-bit signed integer.
portMAX_DELAY == "0xffffffff"   \* sha.c:79
NoWaitTicks == "0"              \* sha.c:186, esp_sha_lock_engine_common(sha_type, 0)
NumEngines == 3            \* sha.c:117, engine_states[3]
MaxEnginesInUse == 3       \* sha.c:213, assert(engines_in_use <= 3)
Uint8Range == 256          \* sha.c:119, uint8_t engines_in_use
SemInitValue == 1          \* sha.c:89, sem_init(x, 0, 1)
InUseLockInit == 1         \* sha.c:123 with :68, portMUX_INITIALIZER_UNLOCKED

Agents == 1 .. NumAgents
Engines == 0 .. (NumEngines - 1)
ShaTypes == {"SHA1", "SHA2_256", "SHA2_384", "SHA2_512"}
Blocks == 1 .. NumBlockValues

(* A semaphore handle: the agent that allocated it and the slot it was      *)
(* allocated for (every kmm_malloc gives a fresh object).  NULL is the zero *)
(* a static pointer array starts with.                                      *)
NULL == <<0, 0>>
Handles == Agents \X Engines
InUseLock == <<0, 1>>      \* the static semaphore engines_in_use_lock
NoSem == 0 - 1000          \* count of a semaphore that was never created

VARIABLES
  \* ---- sha.c: shared state
  engine_states,       \* static SemaphoreHandle_t engine_states[3]
  semcount,            \* semcount of every semaphore (NuttX: < 0 = -waiters)
  engines_in_use,      \* static uint8_t engines_in_use
  periph_enabled,      \* PERIPH_SHA_MODULE clock enabled
  memory_block_lock,   \* spinlock: 0 free, else the agent holding it
  hw_digest,           \* digest state kept inside each SHA engine
  hw_busy,             \* the busy signal sha_hal_wait_idle() polls
  ndebug,              \* TRUE: built with NDEBUG (asserts compiled out)
  aborted,             \* an assert failed: the system stopped
  \* ---- sha.c: per agent
  pc,                  \* position of the agent
  fn,                  \* API function the agent is in
  sha_type,            \* argument sha_type
  ticks_to_wait,       \* argument of esp_sha_lock_engine_common
  engine_state,        \* local SemaphoreHandle_t engine_state
  result,              \* local BaseType_t result
  ret,                 \* bool returned by esp_sha_lock_engine_common
  data_block,          \* argument data_block of esp_sha_block
  first_block,         \* argument first_block of esp_sha_block
  digest_state,        \* what esp_sha_read_digest_state wrote to digest_state
  \* ---- history (not program state)
  acquired,            \* the caller was told it holds the engine
  tokenHeld,           \* the semaphore this call's xSemaphoreTake took
  waited,              \* this call was suspended in xSemaphoreTake
  calls,               \* lock / try-lock calls made so far
  fed,                 \* blocks fed in the current session
  interrupted,         \* some sem_wait() returned ERROR
  workload,            \* what the callers do: "arbitration", "sessions", "nested"
  first_held           \* the engine a caller already holds when it locks a second

shaShared == <<engine_states, semcount, engines_in_use, periph_enabled,
               memory_block_lock, hw_digest, hw_busy, ndebug, aborted>>
shaLocal == <<pc, fn, sha_type, ticks_to_wait, engine_state, result, ret,
              data_block, first_block, digest_state>>
shaHist == <<acquired, tokenHeld, waited, calls, fed, interrupted, workload,
             first_held>>
shaVars == <<shaShared, shaLocal, shaHist>>

VARIABLES
  \* ---- cpu_start.c: build configuration and what the hardware reports
  cfg,                 \* CONFIG_* options, efuse bit, reset reasons, RAM test
  \* ---- cpu_start.c: shared state
  s_cpu_up,            \* static volatile bool s_cpu_up[SOC_CPU_CORES_NUM]
  s_cpu_inited,        \* static volatile bool s_cpu_inited[SOC_CPU_CORES_NUM]
  s_resume_cores,      \* static volatile bool s_resume_cores
  g_spiram_ok,         \* bool g_spiram_ok
  bss,                 \* content of .bss: "stale" or "zero"
  rtc_bss,             \* content of the RTC .bss: "stale", "kept" or "zero"
  rwdt_disabled,       \* wdt_hal_disable(&rtc_wdt_ctx) was executed
  \* ---- cpu_start.c: per core
  core_pc,             \* position of each core
  cpus_flag,           \* local volatile bool cpus_up / cpus_inited of core 0
  poll_i,              \* loop index i of the poll in progress
  \* ---- history (not program state)
  handoffs,            \* calls of SYS_STARTUP_FN per core
  polls,               \* passes of a busy-poll loop core 0 started
  writers              \* (core, flag, entry) for every write of a flag entry

bootShared == <<s_cpu_up, s_cpu_inited, s_resume_cores, g_spiram_ok, bss,
                rtc_bss, rwdt_disabled>>
bootLocal == <<core_pc, cpus_flag, poll_i>>
bootHist == <<handoffs, polls, writers>>
bootVars == <<cfg, bootShared, bootLocal, bootHist>>

VARIABLES
  \* ---- esp_aes.c: caller-owned state, per agent
  ctx,                 \* esp_aes_context: key, key_bytes, key_in_hardware
  aes_pc,              \* position of the agent inside an entry point
  aes_fn,              \* the entry point called
  aes_mode,            \* argument mode
  aes_length,          \* argument length (bytes)
  aes_input,           \* input buffer, as a sequence of 16-byte blocks
  aes_iv,              \* iv buffer
  aes_output,          \* output buffer, as a sequence of 16-byte blocks
  aes_r,               \* local r / ret, and the value returned
  \* ---- history (not program state)
  aes_entry,           \* context and output buffer when the call was made
  aes_acquired,        \* esp_aes_acquire_hardware was called in this call
  aes_cleared,         \* key_in_hardware was 0 when the hardware run began
  aes_origin,          \* plaintext and IV of the last CBC encryption
  aes_roundtrip,       \* this call decrypts the output of that encryption
  aes_calls,           \* calls of entry points made so far
  aes_load             \* what the callers do: "cipher" or "concurrent"

aesLocal == <<ctx, aes_pc, aes_fn, aes_mode, aes_length, aes_input, aes_iv,
              aes_output, aes_r>>
aesHist == <<aes_entry, aes_acquired, aes_cleared, aes_origin, aes_roundtrip,
             aes_calls, aes_load>>
aesVars == <<aesLocal, aesHist>>

vars == <<shaVars, bootVars, aesVars>>

(***************************************************************************)
(* sha.c:141  sha_engine_index                                             *)
(***************************************************************************)
sha_engine_index(type) ==
  CASE type = "SHA1" -> 0
    [] type = "SHA2_256" -> 1
    [] OTHER -> 2

(* What a caller that locks a second engine keeps of the first: the type   *)
(* it locked and the token its take got.  NoOuter: it holds no other.      *)
NoOuter == [type |-> "none", token |-> NULL, ticks |-> NoWaitTicks]

OuterToken(a) == first_held[a].token

InitSha(load) ==
  /\ workload = load
  /\ engine_states = [e \in Engines |-> NULL]
  /\ semcount = [h \in Handles \cup {InUseLock} |->
                   IF h = InUseLock THEN InUseLockInit ELSE NoSem]
  /\ engines_in_use = 0
  /\ periph_enabled = FALSE
  /\ memory_block_lock = 0
  /\ hw_digest = [e \in Engines |-> <<>>]
  /\ hw_busy = FALSE
  /\ ndebug \in BOOLEAN
  /\ aborted = FALSE
  /\ pc = [a \in Agents |-> "idle"]
  /\ fn = [a \in Agents |-> "none"]
  /\ sha_type = [a \in Agents |-> "SHA1"]
  /\ ticks_to_wait = [a \in Agents |-> NoWaitTicks]
  /\ engine_state = [a \in Agents |-> NULL]
  /\ result = [a \in Agents |-> 0]
  /\ ret = [a \in Agents |-> FALSE]
  /\ data_block = [a \in Agents |-> 0]
  /\ first_block = [a \in Agents |-> FALSE]
  /\ digest_state = [a \in Agents |-> <<>>]
  /\ acquired = [a \in Agents |-> FALSE]
  /\ tokenHeld = [a \in Agents |-> NULL]
  /\ waited = [a \in Agents |-> FALSE]
  /\ calls = [a \in Agents |-> 0]
  /\ fed = [a \in Agents |-> <<>>]
  /\ interrupted = FALSE
  /\ first_held = [a \in Agents |-> NoOuter]

(***************************************************************************)
(* NuttX counting semaphores, as the macros of sha.c:71-75 use them.       *)
(* sem_wait() decrements the count and suspends the caller when the count  *)
(* was not positive; sem_post() increments it and hands the semaphore to   *)
(* one waiter when there is one.  A suspended sem_wait() can also return   *)
(* ERROR (the wait was interrupted by a signal): the caller then does not  *)
(* hold the semaphore.                                                     *)
(***************************************************************************)
WaitLabels == {"take_wait", "l_enter_wait", "u_enter_wait"}

WaitSem(w) == IF pc[w] = "take_wait" THEN engine_state[w] ELSE InUseLock

Waiters(h) == {w \in Agents : pc[w] \in WaitLabels /\ WaitSem(w) = h}

Resume(label) ==
  CASE label = "take_wait" -> "check"
    [] label = "l_enter_wait" -> "l_test"
    [] label = "u_enter_wait" -> "u_dec"

(* sem_wait(h) by agent a: continue at got, or suspend at blocked. *)
sem_wait(a, h, got, blocked) ==
  /\ semcount' = [semcount EXCEPT ![h] = @ - 1]
  /\ pc' = [pc EXCEPT ![a] = IF semcount[h] > 0 THEN got ELSE blocked]

(* sem_post(h) by agent a, which continues at next; release says that a    *)
(* gives back the token it took (and is left with the token of the engine  *)
(* it locked before, when there is one).  A waiter w, when there is one,   *)
(* is woken owning the semaphore: its sem_wait() returns OK.               *)
sem_post(a, h, next, release) ==
  /\ semcount' = [semcount EXCEPT ![h] = @ + 1]
  /\ IF semcount[h] < 0
       THEN \E w \in Waiters(h) :
              /\ pc' = [pc EXCEPT ![a] = next, ![w] = Resume(pc[w])]
              /\ result' = [result EXCEPT
                              ![w] = IF pc[w] = "take_wait" THEN OK ELSE @]
              /\ tokenHeld' = [x \in Agents |->
                                 IF x = w /\ pc[w] = "take_wait" THEN h
                                 ELSE IF x = a /\ release THEN OuterToken(a)
                                 ELSE tokenHeld[x]]
       ELSE /\ pc' = [pc EXCEPT ![a] = next]
            /\ result' = result
            /\ tokenHeld' = [tokenHeld EXCEPT
                               ![a] = IF release THEN OuterToken(a) ELSE @]

(* A suspended sem_wait() of agent w is interrupted and returns ERROR.  The *)
(* return value is kept only by xSemaphoreTake's caller (sha.c:197);        *)
(* portENTER_CRITICAL (sha.c:204, :225) discards it.                        *)
sem_wait_interrupted(w) ==
  /\ ~aborted
  /\ pc[w] \in WaitLabels
  /\ semcount' = [semcount EXCEPT ![WaitSem(w)] = @ + 1]
  /\ pc' = [pc EXCEPT ![w] = Resume(pc[w])]
  /\ result' = [result EXCEPT ![w] = IF pc[w] = "take_wait" THEN ERROR ELSE @]
  /\ interrupted' = TRUE
  /\ UNCHANGED <<engine_states, engines_in_use, periph_enabled,
                 memory_block_lock, hw_digest, hw_busy, ndebug, aborted>>
  /\ UNCHANGED <<fn, sha_type, ticks_to_wait, engine_state, ret, data_block,
                 first_block, digest_state>>
  /\ UNCHANGED <<acquired, tokenHeld, waited, calls, fed, workload,
                 first_held, bootVars, aesVars>>

(***************************************************************************)
(* sha.c:163-180  sha_get_engine_state, in its three accesses to the       *)
(* shared slot: the first read, the store of a new semaphore, the re-read. *)
(***************************************************************************)
AfterGet(f) ==
  CASE f = "lock" -> "take"
    [] f = "unlock" -> "u_enter"
    [] f = "block" -> "b_assert"
    [] f = "digest" -> "d_assert"

(* sha.c:165-169  result = *engine; if (result == NULL) ... *)
sha_get_engine_state_read(a) ==
  /\ ~aborted
  /\ pc[a] = "get_read"
  /\ engine_state' = [engine_state EXCEPT
                        ![a] = engine_states[sha_engine_index(sha_type[a])]]
  /\ pc' = [pc EXCEPT
              ![a] = IF engine_states[sha_engine_index(sha_type[a])] = NULL
                       THEN "get_create" ELSE AfterGet(fn[a])]
  /\ UNCHANGED shaShared
  /\ UNCHANGED <<fn, sha_type, ticks_to_wait, result, ret, data_block,
                 first_block, digest_state>>
  /\ UNCHANGED <<shaHist, bootVars, aesVars>>

(* sha.c:85-93 and :171-175  new_engine = xSemaphoreCreateBinary()         *)
(* (sem_init(x, 0, 1)); xSemaphoreGive(new_engine); engine_states[idx] = new_engine *)
NewEngineCount == SemInitValue + 1

sha_get_engine_state_create(a) ==
  /\ ~aborted
  /\ pc[a] = "get_create"
  /\ LET idx == sha_engine_index(sha_type[a])
         new_engine == <<a, idx>>
     IN /\ semcount' = [semcount EXCEPT ![new_engine] = NewEngineCount]
        /\ engine_states' = [engine_states EXCEPT ![idx] = new_engine]
  /\ pc' = [pc EXCEPT ![a] = "get_reread"]
  /\ UNCHANGED <<engines_in_use, periph_enabled, memory_block_lock,
                 hw_digest, hw_busy, ndebug, aborted>>
  /\ UNCHANGED <<fn, sha_type, ticks_to_wait, engine_state, result, ret,
                 data_block, first_block, digest_state>>
  /\ UNCHANGED <<shaHist, bootVars, aesVars>>

(* sha.c:177-179  result = *engine; return result *)
sha_get_engine_state_reread(a) ==
  /\ ~aborted
  /\ pc[a] = "get_reread"
  /\ engine_state' = [engine_state EXCEPT
                        ![a] = engine_states[sha_engine_index(sha_type[a])]]
  /\ pc' = [pc EXCEPT ![a] = AfterGet(fn[a])]
  /\ UNCHANGED shaShared
  /\ UNCHANGED <<fn, sha_type, ticks_to_wait, result, ret, data_block,
                 first_block, digest_state>>
  /\ UNCHANGED <<shaHist, bootVars, aesVars>>

(***************************************************************************)
(* sha.c:184-192  esp_sha_try_lock_engine / esp_sha_lock_engine: the call  *)
(* of esp_sha_lock_engine_common with ticks_to_wait 0 or portMAX_DELAY.    *)
(* An agent calls them when it is in no session and no call.               *)
(***************************************************************************)
RECURSIVE SumCalls(_)
SumCalls(S) ==
  IF S = {} THEN 0
  ELSE LET x == CHOOSE y \in S : TRUE IN calls[x] + SumCalls(S \ {x})

CallBudget ==
  CASE workload = "sessions" -> MaxSessions
    [] workload = "nested" -> MaxNested
    [] OTHER -> MaxCalls

(* Callers that lock two engines take them in opposite orders: agent 1    *)
(* locks SHA1 first, every other agent SHA2_256.                           *)
FirstType(a) == IF a = 1 THEN "SHA1" ELSE "SHA2_256"

EnterLock(a, type, ticks) ==
  /\ ~aborted
  /\ pc[a] = "idle"
  /\ SumCalls(Agents) < CallBudget
  /\ workload = "nested" => type = FirstType(a)
  /\ pc' = [pc EXCEPT ![a] = "get_read"]
  /\ fn' = [fn EXCEPT ![a] = "lock"]
  /\ sha_type' = [sha_type EXCEPT ![a] = type]
  /\ ticks_to_wait' = [ticks_to_wait EXCEPT ![a] = ticks]
  /\ calls' = [calls EXCEPT ![a] = @ + 1]
  /\ tokenHeld' = [tokenHeld EXCEPT ![a] = NULL]
  /\ waited' = [waited EXCEPT ![a] = FALSE]
  /\ fed' = [fed EXCEPT ![a] = <<>>]
  /\ UNCHANGED shaShared
  /\ UNCHANGED <<engine_state, result, ret, data_block, first_block,
                 digest_state>>
  /\ UNCHANGED <<acquired, interrupted, workload,
                 first_held, bootVars, aesVars>>

(* The types the callers ask for: all of them when they only lock and      *)
(* unlock, one type of slot 0 and one of the shared slot 2 when they run   *)
(* hash sessions, the types of slots 0 and 1 when they lock two engines.   *)
CallTypes ==
  CASE workload = "sessions" -> {"SHA1", "SHA2_512"}
    [] workload = "nested" -> {"SHA1", "SHA2_256"}
    [] OTHER -> ShaTypes

esp_sha_try_lock_engine(a) ==
  \E type \in CallTypes : EnterLock(a, type, NoWaitTicks)

esp_sha_lock_engine(a) ==
  \E type \in CallTypes : EnterLock(a, type, portMAX_DELAY)

(* sha.c:189-192  esp_sha_lock_engine called by an agent that holds an     *)
(* engine already, for an engine with another index: the caller keeps what *)
(* it holds and enters esp_sha_lock_engine_common for the second engine.   *)
esp_sha_lock_engine_holding(a) ==
  /\ ~aborted
  /\ workload = "nested"
  /\ pc[a] = "session"
  /\ first_held[a] = NoOuter
  /\ SumCalls(Agents) < CallBudget
  /\ \E type \in CallTypes :
       /\ sha_engine_index(type) # sha_engine_index(sha_type[a])
       /\ sha_type' = [sha_type EXCEPT ![a] = type]
  /\ first_held' = [first_held EXCEPT
                      ![a] = [type |-> sha_type[a], token |-> tokenHeld[a],
                              ticks |-> ticks_to_wait[a]]]
  /\ pc' = [pc EXCEPT ![a] = "get_read"]
  /\ fn' = [fn EXCEPT ![a] = "lock"]
  /\ ticks_to_wait' = [ticks_to_wait EXCEPT ![a] = portMAX_DELAY]
  /\ calls' = [calls EXCEPT ![a] = @ + 1]
  /\ tokenHeld' = [tokenHeld EXCEPT ![a] = NULL]
  /\ waited' = [waited EXCEPT ![a] = FALSE]
  /\ UNCHANGED shaShared
  /\ UNCHANGED <<engine_state, result, ret, data_block, first_block,
                 digest_state>>
  /\ UNCHANGED <<acquired, fed, interrupted, workload, bootVars, aesVars>>

(***************************************************************************)
(* sha.c:194-218  esp_sha_lock_engine_common                               *)
(***************************************************************************)
(* sha.c:197 with :74  result = xSemaphoreTake(engine_state, ticks_to_wait) *)
(* is sem_wait(engine_state): ticks_to_wait is dropped by the macro.        *)
xSemaphoreTake(a) ==
  /\ ~aborted
  /\ pc[a] = "take"
  /\ sem_wait(a, engine_state[a], "check", "take_wait")
  /\ IF semcount[engine_state[a]] > 0
       THEN /\ result' = [result EXCEPT ![a] = OK]
            /\ tokenHeld' = [tokenHeld EXCEPT ![a] = engine_state[a]]
            /\ waited' = waited
       ELSE /\ waited' = [waited EXCEPT ![a] = TRUE]
            /\ UNCHANGED <<result, tokenHeld>>
  /\ UNCHANGED <<engine_states, engines_in_use, periph_enabled,
                 memory_block_lock, hw_digest, hw_busy, ndebug, aborted>>
  /\ UNCHANGED <<fn, sha_type, ticks_to_wait, engine_state, ret, data_block,
                 first_block, digest_state>>
  /\ UNCHANGED <<acquired, calls, fed, interrupted, workload,
                 first_held, bootVars, aesVars>>

(* sha.c:199-202  if (result == pdFALSE) return false; *)
TakeFailed(r) == r = pdFALSE

(* A take whose wait ends by itself: the suspended caller gives up, leaves *)
(* the wait queue of the token and returns false.                          *)
lock_check_result_giving_up(a) ==
  /\ ~aborted
  /\ pc[a] \in {"check", "take_wait"}
  /\ semcount' = [semcount EXCEPT
                    ![engine_state[a]] = IF pc[a] = "take_wait" THEN @ + 1 ELSE @]
  /\ IF pc[a] = "take_wait" \/ TakeFailed(result[a])
       THEN /\ ret' = [ret EXCEPT ![a] = FALSE]
            /\ pc' = [pc EXCEPT ![a] = "l_ret"]
       ELSE /\ ret' = ret
            /\ pc' = [pc EXCEPT ![a] = "l_enter"]
  /\ UNCHANGED <<engine_states, engines_in_use, periph_enabled,
                 memory_block_lock, hw_digest, hw_busy, ndebug, aborted>>
  /\ UNCHANGED <<fn, sha_type, ticks_to_wait, engine_state, result,
                 data_block, first_block, digest_state>>
  /\ UNCHANGED <<shaHist, bootVars, aesVars>>

lock_check_result(a) ==
  /\ ~aborted
  /\ pc[a] = "check"
  /\ IF TakeFailed(result[a])
       THEN /\ ret' = [ret EXCEPT ![a] = FALSE]
            /\ pc' = [pc EXCEPT ![a] = "l_ret"]
       ELSE /\ ret' = ret
            /\ pc' = [pc EXCEPT ![a] = "l_enter"]
  /\ UNCHANGED shaShared
  /\ UNCHANGED <<fn, sha_type, ticks_to_wait, engine_state, result,
                 data_block, first_block, digest_state>>
  /\ UNCHANGED <<shaHist, bootVars, aesVars>>

(* An entry into the critical section that is followed by the take of the  *)
(* engine token, so that the token is waited for inside the section.       *)
lock_enter_critical_then_take(a) ==
  /\ ~aborted
  /\ pc[a] = "l_enter"
  /\ semcount[InUseLock] > 0
  /\ semcount' = [semcount EXCEPT ![InUseLock] = @ - 1]
  /\ pc' = [pc EXCEPT ![a] = "take"]
  /\ UNCHANGED <<engine_states, engines_in_use, periph_enabled,
                 memory_block_lock, hw_digest, hw_busy, ndebug, aborted>>
  /\ UNCHANGED <<fn, sha_type, ticks_to_wait, engine_state, result, ret,
                 data_block, first_block, digest_state>>
  /\ UNCHANGED <<shaHist, bootVars, aesVars>>

(* sha.c:204 with :71  portENTER_CRITICAL(&engines_in_use_lock) *)
lock_enter_critical(a) ==
  /\ ~aborted
  /\ pc[a] = "l_enter"
  /\ sem_wait(a, InUseLock, "l_test", "l_enter_wait")
  /\ UNCHANGED <<engine_states, engines_in_use, periph_enabled,
                 memory_block_lock, hw_digest, hw_busy, ndebug, aborted>>
  /\ UNCHANGED <<fn, sha_type, ticks_to_wait, engine_state, result, ret,
                 data_block, first_block, digest_state>>
  /\ UNCHANGED <<shaHist, bootVars, aesVars>>

(* sha.c:206-210  if (engines_in_use == 0) periph_module_enable(...) *)
lock_enable_periph(a) ==
  /\ ~aborted
  /\ pc[a] = "l_test"
  /\ periph_enabled' = IF engines_in_use = 0 THEN TRUE ELSE periph_enabled
  /\ pc' = [pc EXCEPT ![a] = "l_inc"]
  /\ UNCHANGED <<engine_states, semcount, engines_in_use, memory_block_lock,
                 hw_digest, hw_busy, ndebug, aborted>>
  /\ UNCHANGED <<fn, sha_type, ticks_to_wait, engine_state, result, ret,
                 data_block, first_block, digest_state>>
  /\ UNCHANGED <<shaHist, bootVars, aesVars>>

(* sha.c:212-213  engines_in_use++; assert(engines_in_use <= 3); *)
Increment(n) == (n + 1) % Uint8Range

lock_increment(a) ==
  /\ ~aborted
  /\ pc[a] = "l_inc"
  /\ engines_in_use' = Increment(engines_in_use)
  /\ aborted' = (~ndebug /\ Increment(engines_in_use) > MaxEnginesInUse)
  /\ pc' = [pc EXCEPT ![a] = "l_exit"]
  /\ UNCHANGED <<engine_states, semcount, periph_enabled, memory_block_lock,
                 hw_digest, hw_busy, ndebug>>
  /\ UNCHANGED <<fn, sha_type, ticks_to_wait, engine_state, result, ret,
                 data_block, first_block, digest_state>>
  /\ UNCHANGED <<shaHist, bootVars, aesVars>>

(* sha.c:215-217  portEXIT_CRITICAL(&engines_in_use_lock); return true; *)
lock_exit_critical(a) ==
  /\ ~aborted
  /\ pc[a] = "l_exit"
  /\ sem_post(a, InUseLock, "l_ret", FALSE)
  /\ ret' = [ret EXCEPT ![a] = TRUE]
  /\ UNCHANGED <<engine_states, engines_in_use, periph_enabled,
                 memory_block_lock, hw_digest, hw_busy, ndebug, aborted>>
  /\ UNCHANGED <<fn, sha_type, ticks_to_wait, engine_state, data_block,
                 first_block, digest_state>>
  /\ UNCHANGED <<acquired, waited, calls, fed, interrupted, workload,
                 first_held, bootVars, aesVars>>

(* The return to the caller.  esp_sha_lock_engine (sha.c:189-192) is void   *)
(* and drops the result, so its caller goes on as the holder;               *)
(* esp_sha_try_lock_engine (sha.c:184-187) hands the result on.             *)
ToldHolder(a) == ticks_to_wait[a] = portMAX_DELAY \/ ret[a]

lock_return(a) ==
  /\ ~aborted
  /\ pc[a] = "l_ret"
  /\ acquired' = [acquired EXCEPT ![a] = ToldHolder(a)]
  /\ pc' = [pc EXCEPT ![a] = IF ToldHolder(a) THEN "session" ELSE "idle"]
  /\ fn' = [fn EXCEPT ![a] = "none"]
  /\ engine_state' = [engine_state EXCEPT ![a] = NULL]
  /\ result' = [result EXCEPT ![a] = 0]
  /\ ret' = [ret EXCEPT ![a] = FALSE]
  /\ waited' = [waited EXCEPT ![a] = FALSE]
  /\ tokenHeld' = [tokenHeld EXCEPT ![a] = IF ToldHolder(a) THEN @ ELSE NULL]
  /\ UNCHANGED <<sha_type, ticks_to_wait>>
  /\ UNCHANGED shaShared
  /\ UNCHANGED <<data_block, first_block, digest_state>>
  /\ UNCHANGED <<calls, fed, interrupted, workload,
                 first_held, bootVars, aesVars>>

(***************************************************************************)
(* sha.c:221-238  esp_sha_unlock_engine, called by an agent that was told  *)
(* it holds the engine, for the type it locked.                            *)
(***************************************************************************)
esp_sha_unlock_engine(a) ==
  /\ ~aborted
  /\ pc[a] \in {"session", "digested"}
  /\ fn' = [fn EXCEPT ![a] = "unlock"]
  /\ pc' = [pc EXCEPT ![a] = "get_read"]
  /\ digest_state' = [digest_state EXCEPT ![a] = <<>>]
  /\ UNCHANGED shaShared
  /\ UNCHANGED <<sha_type, ticks_to_wait, engine_state, result, ret,
                 data_block, first_block>>
  /\ UNCHANGED <<shaHist, bootVars, aesVars>>

(* sha.c:225 with :71  portENTER_CRITICAL(&engines_in_use_lock) *)
unlock_enter_critical(a) ==
  /\ ~aborted
  /\ pc[a] = "u_enter"
  /\ sem_wait(a, InUseLock, "u_dec", "u_enter_wait")
  /\ UNCHANGED <<engine_states, engines_in_use, periph_enabled,
                 memory_block_lock, hw_digest, hw_busy, ndebug, aborted>>
  /\ UNCHANGED <<fn, sha_type, ticks_to_wait, engine_state, result, ret,
                 data_block, first_block, digest_state>>
  /\ UNCHANGED <<shaHist, bootVars, aesVars>>

(* sha.c:227  engines_in_use--;  (uint8_t: 0 wraps to 255) *)
Decrement(n) == (n + Uint8Range - 1) % Uint8Range

unlock_decrement(a) ==
  /\ ~aborted
  /\ pc[a] = "u_dec"
  /\ engines_in_use' = Decrement(engines_in_use)
  /\ pc' = [pc EXCEPT ![a] = "u_test"]
  /\ UNCHANGED <<engine_states, semcount, periph_enabled, memory_block_lock,
                 hw_digest, hw_busy, ndebug, aborted>>
  /\ UNCHANGED <<fn, sha_type, ticks_to_wait, engine_state, result, ret,
                 data_block, first_block, digest_state>>
  /\ UNCHANGED <<shaHist, bootVars, aesVars>>

(* sha.c:229-233  if (engines_in_use == 0) periph_module_disable(...) *)
unlock_disable_periph(a) ==
  /\ ~aborted
  /\ pc[a] = "u_test"
  /\ periph_enabled' = IF engines_in_use = 0 THEN FALSE ELSE periph_enabled
  /\ pc' = [pc EXCEPT ![a] = "u_exit"]
  /\ UNCHANGED <<engine_states, semcount, engines_in_use, memory_block_lock,
                 hw_digest, hw_busy, ndebug, aborted>>
  /\ UNCHANGED <<fn, sha_type, ticks_to_wait, engine_state, result, ret,
                 data_block, first_block, digest_state>>
  /\ UNCHANGED <<shaHist, bootVars, aesVars>>

(* sha.c:235 with :72  portEXIT_CRITICAL(&engines_in_use_lock) *)
unlock_exit_critical(a) ==
  /\ ~aborted
  /\ pc[a] = "u_exit"
  /\ sem_post(a, InUseLock, "u_give", FALSE)
  /\ UNCHANGED <<engine_states, engines_in_use, periph_enabled,
                 memory_block_lock, hw_digest, hw_busy, ndebug, aborted>>
  /\ UNCHANGED <<fn, sha_type, ticks_to_wait, engine_state, ret, data_block,
                 first_block, digest_state>>
  /\ UNCHANGED <<acquired, waited, calls, fed, interrupted, workload,
                 first_held, bootVars, aesVars>>

(* sha.c:237 with :75  xSemaphoreGive(engine_state), and the return *)
xSemaphoreGive(a) ==
  /\ ~aborted
  /\ pc[a] = "u_give"
  /\ sem_post(a, engine_state[a],
              IF first_held[a] = NoOuter THEN "idle" ELSE "session", TRUE)
  /\ acquired' = [acquired EXCEPT ![a] = first_held[a] # NoOuter]
  /\ fn' = [fn EXCEPT ![a] = "none"]
  /\ engine_state' = [engine_state EXCEPT ![a] = NULL]
  /\ sha_type' = [sha_type EXCEPT
                    ![a] = IF first_held[a] = NoOuter THEN "SHA1"
                           ELSE first_held[a].type]
  /\ ticks_to_wait' = [ticks_to_wait EXCEPT ![a] = first_held[a].ticks]
  /\ first_held' = [first_held EXCEPT ![a] = NoOuter]
  /\ fed' = [fed EXCEPT ![a] = <<>>]
  /\ UNCHANGED <<engine_states, engines_in_use, periph_enabled,
                 memory_block_lock, hw_digest, hw_busy, ndebug, aborted>>
  /\ UNCHANGED <<ret, data_block, first_block, digest_state>>
  /\ UNCHANGED <<waited, calls, interrupted, workload, bootVars, aesVars>>

(***************************************************************************)
(* The SHA hardware behind hal/sha_hal.h.  Every engine keeps a running    *)
(* digest state; a block transform with first_block set restarts it.  The  *)
(* digest state is modelled by the sequence of (type, block) pairs it was  *)
(* computed from, so two digests are equal exactly when they were computed *)
(* from the same blocks in the same order.  The engines work only while    *)
(* their clock domain is enabled: a gated engine ignores writes and reads  *)
(* as Garbage.                                                             *)
(***************************************************************************)
Garbage == <<<<"none", 0>>>>

(* The digest a single computation over blocks gives. *)
Digest(type, blocks) == [i \in 1 .. Len(blocks) |-> <<type, blocks[i]>>]

sha_hal_hash_block(digest, type, block, first) ==
  IF first THEN <<<<type, block>>>> ELSE Append(digest, <<type, block>>)

sha_hal_read_digest(digest) ==
  IF periph_enabled THEN digest ELSE Garbage

(* The engine finishes the transform it was started on. *)
hw_done ==
  /\ ~aborted
  /\ hw_busy
  /\ hw_busy' = FALSE
  /\ UNCHANGED <<engine_states, semcount, engines_in_use, periph_enabled,
                 memory_block_lock, hw_digest, ndebug, aborted>>
  /\ UNCHANGED shaLocal
  /\ UNCHANGED <<shaHist, bootVars, aesVars>>

(***************************************************************************)
(* sha.c:260-277  esp_sha_block, called inside a session; first_block is   *)
(* set for the first block of the session only.                            *)
(***************************************************************************)
esp_sha_block(a) ==
  /\ ~aborted
  /\ pc[a] = "session"
  /\ Len(fed[a]) < MaxBlocks
  /\ \E b \in Blocks : data_block' = [data_block EXCEPT ![a] = b]
  /\ first_block' = [first_block EXCEPT ![a] = (fed[a] = <<>>)]
  /\ fn' = [fn EXCEPT ![a] = "block"]
  /\ pc' = [pc EXCEPT ![a] = IF ndebug THEN "b_wait" ELSE "get_read"]
  /\ UNCHANGED shaShared
  /\ UNCHANGED <<sha_type, ticks_to_wait, engine_state, result, ret,
                 digest_state>>
  /\ UNCHANGED <<shaHist, bootVars, aesVars>>

(* sha.c:262-268 and :242-248
   assert(uxSemaphoreGetCount(engine_state) == 0 && "SHA engine should be locked") *)
EngineLockedAssert(a) == semcount[engine_state[a]] = 0

assert_engine_locked(a) ==
  /\ ~aborted
  /\ pc[a] \in {"b_assert", "d_assert"}
  /\ IF EngineLockedAssert(a)
       THEN /\ pc' = [pc EXCEPT
                        ![a] = IF pc[a] = "b_assert" THEN "b_wait" ELSE "d_wait"]
            /\ aborted' = aborted
       ELSE /\ pc' = pc
            /\ aborted' = TRUE
  /\ UNCHANGED <<engine_states, semcount, engines_in_use, periph_enabled,
                 memory_block_lock, hw_digest, hw_busy, ndebug>>
  /\ UNCHANGED <<fn, sha_type, ticks_to_wait, engine_state, result, ret,
                 data_block, first_block, digest_state>>
  /\ UNCHANGED <<shaHist, bootVars, aesVars>>

(* An idle wait made inside the memory block lock: the lock is taken first. *)
sha_hal_wait_idle_inside_lock(a) ==
  /\ ~aborted
  /\ pc[a] \in {"b_wait", "d_wait"}
  /\ memory_block_lock = 0
  /\ memory_block_lock' = a
  /\ pc' = pc
  /\ UNCHANGED <<engine_states, semcount, engines_in_use, periph_enabled,
                 hw_digest, hw_busy, ndebug, aborted>>
  /\ UNCHANGED <<fn, sha_type, ticks_to_wait, engine_state, result, ret,
                 data_block, first_block, digest_state>>
  /\ UNCHANGED <<shaHist, bootVars, aesVars>>

(* sha.c:271 and :251  sha_hal_wait_idle(), outside the memory block lock *)
sha_hal_wait_idle(a) ==
  /\ ~aborted
  /\ pc[a] \in {"b_wait", "d_wait"}
  /\ ~hw_busy
  /\ pc' = [pc EXCEPT ![a] = IF pc[a] = "b_wait" THEN "b_lock" ELSE "d_lock"]
  /\ UNCHANGED shaShared
  /\ UNCHANGED <<fn, sha_type, ticks_to_wait, engine_state, result, ret,
                 data_block, first_block, digest_state>>
  /\ UNCHANGED <<shaHist, bootVars, aesVars>>

(* A lock of the memory block that does not spin while the lock is held. *)
esp_sha_lock_memory_block_not_spinning(a) ==
  /\ ~aborted
  /\ pc[a] \in {"b_lock", "d_lock"}
  /\ memory_block_lock' = a
  /\ pc' = [pc EXCEPT ![a] = IF pc[a] = "b_lock" THEN "b_hash" ELSE "d_read"]
  /\ UNCHANGED <<engine_states, semcount, engines_in_use, periph_enabled,
                 hw_digest, hw_busy, ndebug, aborted>>
  /\ UNCHANGED <<fn, sha_type, ticks_to_wait, engine_state, result, ret,
                 data_block, first_block, digest_state>>
  /\ UNCHANGED <<shaHist, bootVars, aesVars>>

(* sha.c:153-156  esp_sha_lock_memory_block: spin_lock_irqsave *)
esp_sha_lock_memory_block(a) ==
  /\ ~aborted
  /\ pc[a] \in {"b_lock", "d_lock"}
  /\ memory_block_lock = 0
  /\ memory_block_lock' = a
  /\ pc' = [pc EXCEPT ![a] = IF pc[a] = "b_lock" THEN "b_hash" ELSE "d_read"]
  /\ UNCHANGED <<engine_states, semcount, engines_in_use, periph_enabled,
                 hw_digest, hw_busy, ndebug, aborted>>
  /\ UNCHANGED <<fn, sha_type, ticks_to_wait, engine_state, result, ret,
                 data_block, first_block, digest_state>>
  /\ UNCHANGED <<shaHist, bootVars, aesVars>>

(* sha.c:274  sha_hal_hash_block(sha_type, data_block, ..., first_block):  *)
(* the HAL waits for the engine to be idle again, then starts the block.   *)
block_transform(a) ==
  /\ ~aborted
  /\ pc[a] = "b_hash"
  /\ ~hw_busy
  /\ LET idx == sha_engine_index(sha_type[a])
     IN IF periph_enabled
          THEN /\ hw_digest' = [hw_digest EXCEPT
                                  ![idx] = sha_hal_hash_block(@, sha_type[a],
                                             data_block[a], first_block[a])]
               /\ hw_busy' = TRUE
          ELSE UNCHANGED <<hw_digest, hw_busy>>
  /\ fed' = [fed EXCEPT ![a] = Append(@, data_block[a])]
  /\ pc' = [pc EXCEPT ![a] = "b_unlock"]
  /\ UNCHANGED <<engine_states, semcount, engines_in_use, periph_enabled,
                 memory_block_lock, ndebug, aborted>>
  /\ UNCHANGED <<fn, sha_type, ticks_to_wait, engine_state, result, ret,
                 data_block, first_block, digest_state>>
  /\ UNCHANGED <<acquired, tokenHeld, waited, calls, interrupted, workload,
                 first_held, bootVars, aesVars>>

(* sha.c:158-161  esp_sha_unlock_memory_block, and the return *)
esp_sha_unlock_memory_block(a) ==
  /\ ~aborted
  /\ pc[a] \in {"b_unlock", "d_unlock"}
  /\ memory_block_lock' = 0
  /\ pc' = [pc EXCEPT
              ![a] = IF pc[a] = "b_unlock" THEN "session" ELSE "digested"]
  /\ fn' = [fn EXCEPT ![a] = "none"]
  /\ engine_state' = [engine_state EXCEPT ![a] = NULL]
  /\ data_block' = [data_block EXCEPT ![a] = 0]
  /\ first_block' = [first_block EXCEPT ![a] = FALSE]
  /\ UNCHANGED <<engine_states, semcount, engines_in_use, periph_enabled,
                 hw_digest, hw_busy, ndebug, aborted>>
  /\ UNCHANGED <<sha_type, ticks_to_wait, result, ret, digest_state>>
  /\ UNCHANGED <<shaHist, bootVars, aesVars>>

(***************************************************************************)
(* sha.c:240-258  esp_sha_read_digest_state, called once, last in a        *)
(* session.                                                                *)
(***************************************************************************)
esp_sha_read_digest_state(a) ==
  /\ ~aborted
  /\ pc[a] = "session"
  /\ fn' = [fn EXCEPT ![a] = "digest"]
  /\ pc' = [pc EXCEPT ![a] = IF ndebug THEN "d_wait" ELSE "get_read"]
  /\ UNCHANGED shaShared
  /\ UNCHANGED <<sha_type, ticks_to_wait, engine_state, result, ret,
                 data_block, first_block, digest_state>>
  /\ UNCHANGED <<shaHist, bootVars, aesVars>>

(* sha.c:255  sha_hal_read_digest(sha_type, digest_state) *)
digest_read(a) ==
  /\ ~aborted
  /\ pc[a] = "d_read"
  /\ ~hw_busy
  /\ digest_state' = [digest_state EXCEPT
       ![a] = sha_hal_read_digest(hw_digest[sha_engine_index(sha_type[a])])]
  /\ pc' = [pc EXCEPT ![a] = "d_unlock"]
  /\ UNCHANGED shaShared
  /\ UNCHANGED <<fn, sha_type, ticks_to_wait, engine_state, result, ret,
                 data_block, first_block>>
  /\ UNCHANGED <<shaHist, bootVars, aesVars>>

(***************************************************************************)
(* cpu_start.c: the bring-up of the two cores.                             *)
(***************************************************************************)
SOC_CPU_CORES_NUM == 2     \* cpu_start.c:92, the size of the flag arrays
Cores == 0 .. (SOC_CPU_CORES_NUM - 1)

ResetReasons == {"POWERON_RESET", "DEEPSLEEP_RESET", "RTCWDT_SYS_RESET",
                 "TG0WDT_SYS_RESET"}

(* The build options and hardware reports call_start_cpu0 depends on.  An   *)
(* option that the build or the path never reads is kept at one value.      *)
Configs ==
  {c \in [single_core : BOOLEAN,          \* CONFIG_ESP_SYSTEM_SINGLE_CORE_MODE
          app_cpu_disabled : BOOLEAN,     \* EFUSE_RD_CHIP_VER_DIS_APP_CPU
          bootloader_wdt : BOOLEAN,       \* CONFIG_BOOTLOADER_WDT_ENABLE
          spiram_boot_init : BOOLEAN,     \* CONFIG_SPIRAM_BOOT_INIT
          spiram_bss_ext : BOOLEAN,       \* CONFIG_SPIRAM_ALLOW_BSS_SEG_EXTERNAL_MEMORY
          spiram_ignore_notfound : BOOLEAN, \* CONFIG_SPIRAM_IGNORE_NOTFOUND
          spiram_memtest : BOOLEAN,       \* CONFIG_SPIRAM_MEMTEST
          rst_reas : ResetReasons \X ResetReasons, \* rtc_get_reset_reason(0/1)
          spiram_init_ok : BOOLEAN,       \* esp_spiram_init() == ESP_OK
          spiram_test_ok : BOOLEAN] :     \* esp_spiram_test()
     /\ c.single_core => (~c.app_cpu_disabled /\ c.rst_reas[2] = "POWERON_RESET")
     /\ c.rst_reas[2] # "DEEPSLEEP_RESET"
     /\ ~c.spiram_boot_init =>
          (c.spiram_init_ok /\ ~c.spiram_ignore_notfound)
     /\ ~c.spiram_memtest => c.spiram_test_ok
     /\ ~(c.spiram_boot_init \/ c.spiram_memtest) => ~c.spiram_bss_ext}

InitBoot ==
  /\ cfg \in Configs
  /\ s_cpu_up = [i \in Cores |-> FALSE]
  /\ s_cpu_inited = [i \in Cores |-> FALSE]
  /\ s_resume_cores = FALSE
  /\ g_spiram_ok = TRUE
  /\ bss = "stale"
  /\ rtc_bss = IF cfg.rst_reas[1] = "DEEPSLEEP_RESET" THEN "kept" ELSE "stale"
  /\ rwdt_disabled = FALSE
  /\ core_pc = [i \in Cores |-> IF i = 0 THEN "start"
                                ELSE IF cfg.single_core THEN "absent"
                                ELSE "reset"]
  /\ cpus_flag = FALSE
  /\ poll_i = 0
  /\ handoffs = [i \in Cores |-> 0]
  /\ polls = {}
  /\ writers = {}

(* cpu_start.c:223-242  the reset reasons, and the RTC watchdog *)
WatchdogReset(r) == r = "RTCWDT_SYS_RESET" \/ r = "TG0WDT_SYS_RESET"

(* The test of the reset reasons looking at core 0 only. *)
DisablesRwdtForCore0Only(c) ==
  ~c.bootloader_wdt /\ WatchdogReset(c.rst_reas[1])

DisablesRwdt(c) ==
  /\ ~c.bootloader_wdt
  /\ \/ WatchdogReset(c.rst_reas[1])
     \/ (~c.single_core /\ WatchdogReset(c.rst_reas[2]))

cpu0_reset_reasons ==
  /\ core_pc[0] = "start"
  /\ rwdt_disabled' = DisablesRwdt(cfg)
  /\ core_pc' = [core_pc EXCEPT ![0] = "bss"]
  /\ UNCHANGED <<shaVars, aesVars, cfg, s_cpu_up, s_cpu_inited, s_resume_cores, g_spiram_ok,
                 bss, rtc_bss, cpus_flag, poll_i, bootHist>>

(* cpu_start.c:244-255  memset of .bss, and of the RTC .bss unless the     *)
(* reset was a wake from deep sleep                                        *)
(* The RTC .bss cleared whatever the reset reason is. *)
ClearsRtcBssAlways(c) == c.rst_reas[1] \in ResetReasons

ClearsRtcBss(c) == c.rst_reas[1] # "DEEPSLEEP_RESET"

cpu0_clear_bss ==
  /\ core_pc[0] = "bss"
  /\ bss' = "zero"
  /\ rtc_bss' = IF ClearsRtcBss(cfg) THEN "zero" ELSE rtc_bss
  /\ core_pc' = [core_pc EXCEPT ![0] = "spiram"]
  /\ UNCHANGED <<shaVars, aesVars, cfg, s_cpu_up, s_cpu_inited, s_resume_cores, g_spiram_ok,
                 rwdt_disabled, cpus_flag, poll_i, bootHist>>

(* cpu_start.c:272-290  esp_spiram_init(): abort() when the external RAM   *)
(* is needed for .bss or may not be ignored, else g_spiram_ok = false      *)
SpiramInitAborts(c) ==
  c.spiram_boot_init /\ ~c.spiram_init_ok
    /\ (c.spiram_bss_ext \/ ~c.spiram_ignore_notfound)

cpu0_spiram_init ==
  /\ core_pc[0] = "spiram"
  /\ IF SpiramInitAborts(cfg)
       THEN /\ core_pc' = [core_pc EXCEPT ![0] = "aborted"]
            /\ g_spiram_ok' = g_spiram_ok
       ELSE /\ core_pc' = [core_pc EXCEPT ![0] = "up"]
            /\ g_spiram_ok' = IF cfg.spiram_boot_init /\ ~cfg.spiram_init_ok
                                THEN FALSE ELSE g_spiram_ok
  /\ UNCHANGED <<shaVars, aesVars, cfg, s_cpu_up, s_cpu_inited, s_resume_cores, bss, rtc_bss,
                 rwdt_disabled, cpus_flag, poll_i, bootHist>>

(* cpu_start.c:292-295  s_cpu_up[0] = true (not in a single-core build) *)
cpu0_up ==
  /\ core_pc[0] = "up"
  /\ IF cfg.single_core
       THEN /\ UNCHANGED <<s_cpu_up, writers>>
            /\ core_pc' = [core_pc EXCEPT ![0] = "memtest"]
       ELSE /\ s_cpu_up' = [s_cpu_up EXCEPT ![0] = TRUE]
            /\ writers' = writers \cup {<<0, "up", 0>>}
            /\ core_pc' = [core_pc EXCEPT ![0] = "start_other"]
  /\ UNCHANGED <<shaVars, aesVars, cfg, s_cpu_inited, s_resume_cores, g_spiram_ok, bss,
                 rtc_bss, rwdt_disabled, cpus_flag, poll_i, handoffs, polls>>

(* start_other_core without the test of the efuse bit: the app CPU is     *)
(* released on every chip.                                                 *)
start_other_core_ignoring_efuse ==
  /\ core_pc[0] = "start_other"
  /\ core_pc' = [core_pc EXCEPT ![0] = "poll_up", ![1] = "c1_start"]
  /\ cpus_flag' = FALSE
  /\ UNCHANGED <<shaVars, aesVars, cfg, s_cpu_up, s_cpu_inited, s_resume_cores,
                 g_spiram_ok, bss, rtc_bss, rwdt_disabled, poll_i, bootHist>>

(* start_other_core that, on a chip with the app CPU disabled, leaves      *)
(* s_cpu_inited[1] as it is.                                               *)
start_other_core_not_marking_inited ==
  /\ core_pc[0] = "start_other"
  /\ IF ~cfg.app_cpu_disabled
       THEN /\ core_pc' = [core_pc EXCEPT ![0] = "poll_up", ![1] = "c1_start"]
            /\ cpus_flag' = FALSE
       ELSE /\ core_pc' = [core_pc EXCEPT ![0] = "memtest"]
            /\ cpus_flag' = cpus_flag
  /\ UNCHANGED <<shaVars, aesVars, cfg, s_cpu_up, s_cpu_inited, s_resume_cores,
                 g_spiram_ok, bss, rtc_bss, rwdt_disabled, poll_i, bootHist>>

(* start_other_core marking core 1 initialized on every chip. *)
start_other_core_always_marking_inited ==
  /\ core_pc[0] = "start_other"
  /\ s_cpu_inited' = [s_cpu_inited EXCEPT ![1] = TRUE]
  /\ writers' = writers \cup {<<0, "inited", 1>>}
  /\ IF ~cfg.app_cpu_disabled
       THEN /\ core_pc' = [core_pc EXCEPT ![0] = "poll_up", ![1] = "c1_start"]
            /\ cpus_flag' = FALSE
       ELSE /\ core_pc' = [core_pc EXCEPT ![0] = "memtest"]
            /\ cpus_flag' = cpus_flag
  /\ UNCHANGED <<shaVars, aesVars, cfg, s_cpu_up, s_resume_cores, g_spiram_ok, bss, rtc_bss,
                 rwdt_disabled, poll_i, handoffs, polls>>

(* cpu_start.c:150-188  start_other_core, up to its poll loop: the app CPU *)
(* is released with call_start_cpu1 as its entry point (:157-173), or, on  *)
(* a chip with the app CPU disabled, s_cpu_inited[1] = true (:183-187)     *)
start_other_core ==
  /\ core_pc[0] = "start_other"
  /\ IF ~cfg.app_cpu_disabled
       THEN /\ core_pc' = [core_pc EXCEPT ![0] = "poll_up", ![1] = "c1_start"]
            /\ cpus_flag' = FALSE
            /\ UNCHANGED <<s_cpu_inited, writers>>
       ELSE /\ s_cpu_inited' = [s_cpu_inited EXCEPT ![1] = TRUE]
            /\ writers' = writers \cup {<<0, "inited", 1>>}
            /\ core_pc' = [core_pc EXCEPT ![0] = "memtest"]
            /\ cpus_flag' = cpus_flag
  /\ UNCHANGED <<shaVars, aesVars, cfg, s_cpu_up, s_resume_cores, g_spiram_ok, bss, rtc_bss,
                 rwdt_disabled, poll_i, handoffs, polls>>

(* cpu_start.c:175-176 and :415-416  while (!flag) { flag = true; ...      *)
PollTest(here, body, after) ==
  /\ core_pc[0] = here
  /\ IF cpus_flag
       THEN /\ core_pc' = [core_pc EXCEPT ![0] = after]
            /\ UNCHANGED <<cpus_flag, poll_i, polls>>
       ELSE /\ core_pc' = [core_pc EXCEPT ![0] = body]
            /\ cpus_flag' = TRUE
            /\ poll_i' = 0
            /\ polls' = polls \cup {here}
  /\ UNCHANGED <<shaVars, aesVars, cfg, bootShared, handoffs, writers>>

(* cpu_start.c:177-180 and :417-420  for (i ...) flag &= array[i];         *)
(* cpu_hal_delay_us(100)                                                   *)
PollRead(body, array, test) ==
  /\ core_pc[0] = body
  /\ IF poll_i < SOC_CPU_CORES_NUM
       THEN /\ cpus_flag' = (cpus_flag /\ array[poll_i])
            /\ poll_i' = poll_i + 1
            /\ core_pc' = core_pc
       ELSE /\ core_pc' = [core_pc EXCEPT ![0] = test]
            /\ poll_i' = 0
            /\ cpus_flag' = cpus_flag
  /\ UNCHANGED <<shaVars, aesVars, cfg, bootShared, bootHist>>

(* start_other_core without its wait on the up flags. *)
cpu0_poll_up_test_not_waiting ==
  /\ core_pc[0] = "poll_up"
  /\ core_pc' = [core_pc EXCEPT ![0] = "memtest"]
  /\ UNCHANGED <<shaVars, aesVars, cfg, bootShared, cpus_flag, poll_i, bootHist>>

cpu0_poll_up_test == PollTest("poll_up", "poll_up_body", "memtest")

cpu0_poll_up_read == PollRead("poll_up_body", s_cpu_up, "poll_up")

(* cpu_start.c:301-309  esp_spiram_test() when g_spiram_ok; abort() when   *)
(* it fails                                                                *)
MemtestAborts(c, ok) == c.spiram_memtest /\ ok /\ ~c.spiram_test_ok

(* The memory test run whatever g_spiram_ok says. *)
cpu0_memtest_ignoring_spiram_ok ==
  /\ core_pc[0] = "memtest"
  /\ core_pc' = [core_pc EXCEPT
                   ![0] = IF MemtestAborts(cfg, TRUE) THEN "aborted"
                          ELSE "periph"]
  /\ UNCHANGED <<shaVars, aesVars, cfg, bootShared, cpus_flag, poll_i, bootHist>>

cpu0_memtest ==
  /\ core_pc[0] = "memtest"
  /\ core_pc' = [core_pc EXCEPT
                   ![0] = IF MemtestAborts(cfg, g_spiram_ok) THEN "aborted"
                          ELSE "periph"]
  /\ UNCHANGED <<shaVars, aesVars, cfg, bootShared, cpus_flag, poll_i, bootHist>>

(* cpu_start.c:343-408  external .bss, trace memory, esp_clk_init(),       *)
(* esp_perip_clk_init(), intr_matrix_clear(), ... flash configuration      *)
cpu0_periph_init ==
  /\ core_pc[0] = "periph"
  /\ core_pc' = [core_pc EXCEPT ![0] = IF cfg.single_core THEN "handoff"
                                       ELSE "inited"]
  /\ UNCHANGED <<shaVars, aesVars, cfg, bootShared, cpus_flag, poll_i, bootHist>>

(* call_start_cpu0 without its wait on the initialized flags. *)
cpu0_inited_without_wait ==
  /\ core_pc[0] = "inited"
  /\ s_cpu_inited' = [s_cpu_inited EXCEPT ![0] = TRUE]
  /\ writers' = writers \cup {<<0, "inited", 0>>}
  /\ cpus_flag' = FALSE
  /\ core_pc' = [core_pc EXCEPT ![0] = "handoff"]
  /\ UNCHANGED <<shaVars, aesVars, cfg, s_cpu_up, s_resume_cores, g_spiram_ok, bss, rtc_bss,
                 rwdt_disabled, poll_i, handoffs, polls>>

(* cpu_start.c:410-413  s_cpu_inited[0] = true; cpus_inited = false *)
cpu0_inited ==
  /\ core_pc[0] = "inited"
  /\ s_cpu_inited' = [s_cpu_inited EXCEPT ![0] = TRUE]
  /\ writers' = writers \cup {<<0, "inited", 0>>}
  /\ cpus_flag' = FALSE
  /\ core_pc' = [core_pc EXCEPT ![0] = "poll_inited"]
  /\ UNCHANGED <<shaVars, aesVars, cfg, s_cpu_up, s_resume_cores, g_spiram_ok, bss, rtc_bss,
                 rwdt_disabled, poll_i, handoffs, polls>>

cpu0_poll_inited_test == PollTest("poll_inited", "poll_inited_body", "handoff")

cpu0_poll_inited_read == PollRead("poll_inited_body", s_cpu_inited, "poll_inited")

(* cpu_start.c:424 and :147  SYS_STARTUP_FN(), which does not return *)
SYS_STARTUP_FN(core) ==
  /\ core_pc[core] = "handoff"
  /\ handoffs' = [handoffs EXCEPT ![core] = @ + 1]
  /\ core_pc' = [core_pc EXCEPT ![core] = "scheduler"]
  /\ UNCHANGED <<shaVars, aesVars, cfg, bootShared, cpus_flag, poll_i, polls, writers>>

(* cpu_start.c:102-105  startup_resume_other_cores, which the startup      *)
(* function of core 0 calls                                                *)
startup_resume_other_cores ==
  /\ ~cfg.single_core
  /\ core_pc[0] = "scheduler"
  /\ ~s_resume_cores
  /\ s_resume_cores' = TRUE
  /\ UNCHANGED <<shaVars, aesVars, cfg, s_cpu_up, s_cpu_inited, g_spiram_ok, bss, rtc_bss,
                 rwdt_disabled, bootLocal, bootHist>>

(***************************************************************************)
(* cpu_start.c:108-148  call_start_cpu1                                    *)
(***************************************************************************)
(* :110-126  vector base, boot address, memory, console, debug records *)
cpu1_start ==
  /\ core_pc[1] = "c1_start"
  /\ core_pc' = [core_pc EXCEPT ![1] = "c1_up"]
  /\ UNCHANGED <<shaVars, aesVars, cfg, bootShared, cpus_flag, poll_i, bootHist>>

(* call_start_cpu1 going on to its initialized flag with its up flag left *)
(* as it is.                                                               *)
cpu1_up_not_setting_flag ==
  /\ core_pc[1] = "c1_up"
  /\ core_pc' = [core_pc EXCEPT ![1] = "c1_inited"]
  /\ UNCHANGED <<shaVars, aesVars, cfg, bootShared, cpus_flag, poll_i, bootHist>>

(* :128-139  s_cpu_up[1] = true; esp_cache_err_int_init(); trace *)
cpu1_up ==
  /\ core_pc[1] = "c1_up"
  /\ s_cpu_up' = [s_cpu_up EXCEPT ![1] = TRUE]
  /\ writers' = writers \cup {<<1, "up", 1>>}
  /\ core_pc' = [core_pc EXCEPT ![1] = "c1_inited"]
  /\ UNCHANGED <<shaVars, aesVars, cfg, s_cpu_inited, s_resume_cores, g_spiram_ok, bss,
                 rtc_bss, rwdt_disabled, cpus_flag, poll_i, handoffs, polls>>

(* call_start_cpu1 going on to its wait with its initialized flag left as *)
(* it is.                                                                  *)
cpu1_inited_not_setting_flag ==
  /\ core_pc[1] = "c1_inited"
  /\ core_pc' = [core_pc EXCEPT ![1] = "c1_wait"]
  /\ UNCHANGED <<shaVars, aesVars, cfg, bootShared, cpus_flag, poll_i, bootHist>>

(* :141  s_cpu_inited[1] = true *)
cpu1_inited ==
  /\ core_pc[1] = "c1_inited"
  /\ s_cpu_inited' = [s_cpu_inited EXCEPT ![1] = TRUE]
  /\ writers' = writers \cup {<<1, "inited", 1>>}
  /\ core_pc' = [core_pc EXCEPT ![1] = "c1_wait"]
  /\ UNCHANGED <<shaVars, aesVars, cfg, s_cpu_up, s_resume_cores, g_spiram_ok, bss, rtc_bss,
                 rwdt_disabled, cpus_flag, poll_i, handoffs, polls>>

(* call_start_cpu1 without its wait on the resume flag. *)
cpu1_wait_resume_not_waiting ==
  /\ core_pc[1] = "c1_wait"
  /\ core_pc' = [core_pc EXCEPT ![1] = "handoff"]
  /\ UNCHANGED <<shaVars, aesVars, cfg, bootShared, cpus_flag, poll_i, bootHist>>

(* :143-145  while (!s_resume_cores) cpu_hal_delay_us(100); *)
cpu1_wait_resume ==
  /\ core_pc[1] = "c1_wait"
  /\ s_resume_cores
  /\ core_pc' = [core_pc EXCEPT ![1] = "handoff"]
  /\ UNCHANGED <<shaVars, aesVars, cfg, bootShared, cpus_flag, poll_i, bootHist>>

NextBoot ==
  \/ cpu0_reset_reasons
  \/ cpu0_clear_bss
  \/ cpu0_spiram_init
  \/ cpu0_up
  \/ start_other_core
  \/ cpu0_poll_up_test
  \/ cpu0_poll_up_read
  \/ cpu0_memtest
  \/ cpu0_periph_init
  \/ cpu0_inited
  \/ cpu0_poll_inited_test
  \/ cpu0_poll_inited_read
  \/ \E core \in Cores : SYS_STARTUP_FN(core)
  \/ startup_resume_other_cores
  \/ cpu1_start
  \/ cpu1_up
  \/ cpu1_inited
  \/ cpu1_wait_resume

(***************************************************************************)
(* esp_aes.c: the block-cipher entry points.                               *)
(***************************************************************************)
MaxAesCalls == 2      \* calls of entry points made in a run, all agents together
MaxAesBlocks == 2     \* blocks in a buffer
NumAesValues == 3     \* values a 16-byte block takes
NumAesKeys == 2       \* values a key takes

AES_BLOCK_BYTES == 16                          \* esp_aes.c:222, length % 16
MBEDTLS_ERR_AES_INVALID_KEY_LENGTH == -32      \* esp_aes.c:134  (-0x0020)
ERR_ESP_AES_INVALID_INPUT_LENGTH == -34        \* esp_aes.c:223  (-0x0022)
CYPHER_ENCRYPT == 1                            \* esp_aes.c:140
CYPHER_DECRYPT == 0                            \* esp_aes.c:172
ResidentAfterDecrypt == 16                     \* esp_aes.c:174
AesRunFailed == -1    \* a non-zero return of aes_cypher (esp_aes.c:141)

AesValues == 0 .. (NumAesValues - 1)
AesKeys == 0 .. (NumAesKeys - 1)
KeyLengths == {0, 16, 24, 32}     \* ctx->key_bytes; 0: no key was set
AesModes == {CYPHER_ENCRYPT, CYPHER_DECRYPT}

(* Buffers of n blocks. *)
AesBuffers(n) == [1 .. n -> AesValues]

(* valid_key_length(ctx) of aes/esp_aes_internal.h: 128, 192 or 256 bits *)
valid_key_length(c) == c.key_bytes \in {16, 24, 32}

(***************************************************************************)
(* aes_cypher(out, in, size, iv, key, keysize, mode, encrypt): the cipher  *)
(* run.  A block cipher is a keyed permutation of the block values, here   *)
(* a rotation by key + 1; CBC chains every block with the ciphertext block *)
(* before it, the first with the IV (addition of values stands for XOR).   *)
(***************************************************************************)
EncryptBlock(key, x) == (x + key + 1) % NumAesValues

DecryptBlock(key, y) ==
  (y + NumAesValues - ((key + 1) % NumAesValues)) % NumAesValues

Chain(x, prev) == (x + prev) % NumAesValues

Unchain(x, prev) == (x + NumAesValues - prev) % NumAesValues

RECURSIVE CbcEncrypt(_, _, _)
CbcEncrypt(key, prev, blocks) ==
  IF blocks = <<>> THEN <<>>
  ELSE LET c == EncryptBlock(key, Chain(Head(blocks), prev))
       IN <<c>> \o CbcEncrypt(key, c, Tail(blocks))

RECURSIVE CbcDecrypt(_, _, _)
CbcDecrypt(key, prev, blocks) ==
  IF blocks = <<>> THEN <<>>
  ELSE <<Unchain(DecryptBlock(key, Head(blocks)), prev)>>
         \o CbcDecrypt(key, Head(blocks), Tail(blocks))

aes_cypher(in, iv, key, mode, encrypt) ==
  IF mode = "AES_MODE_ECB"
    THEN [i \in 1 .. Len(in) |->
            IF encrypt = CYPHER_ENCRYPT THEN EncryptBlock(key, in[i])
            ELSE DecryptBlock(key, in[i])]
    ELSE IF encrypt = CYPHER_ENCRYPT THEN CbcEncrypt(key, iv, in)
         ELSE CbcDecrypt(key, iv, in)

(***************************************************************************)
(* The callers.  In the "cipher" load one agent at a time calls an entry   *)
(* point, with every buffer, IV and length; in the "concurrent" load the   *)
(* agents call at the same time, with one buffer.                          *)
(***************************************************************************)
RECURSIVE SumAesCalls(_)
SumAesCalls(S) ==
  IF S = {} THEN 0
  ELSE LET x == CHOOSE y \in S : TRUE IN aes_calls[x] + SumAesCalls(S \ {x})

(* One agent makes the calls of the "cipher" load, one after the other. *)
AesCallers == IF aes_load = "cipher" THEN {1} ELSE Agents

AesData == IF aes_load = "concurrent" THEN {0} ELSE AesValues

AesLengths ==
  IF aes_load = "concurrent" THEN {AES_BLOCK_BYTES}
  ELSE {n * AES_BLOCK_BYTES : n \in 0 .. MaxAesBlocks} \cup {AES_BLOCK_BYTES - 1}

AesInputs(length) ==
  {b \in AesBuffers(length \div AES_BLOCK_BYTES) :
     \A i \in DOMAIN b : b[i] \in AesData}

NoContext == [key |-> 0, key_bytes |-> 0, key_in_hardware |-> 0]

NoOrigin == [valid |-> FALSE, plain |-> <<>>, iv |-> 0]

InitAes(load) ==
  /\ aes_load = load
  /\ \E c \in [key : IF load = "cipher" THEN AesKeys ELSE {0},
              key_bytes : IF load = "cipher" THEN KeyLengths
                          ELSE IF load = "concurrent" THEN {16} ELSE {0},
              key_in_hardware : {0}] : ctx = [a \in Agents |-> c]
  /\ aes_pc = [a \in Agents |-> "idle"]
  /\ aes_fn = [a \in Agents |-> "none"]
  /\ aes_mode = [a \in Agents |-> 0]
  /\ aes_length = [a \in Agents |-> 0]
  /\ aes_input = [a \in Agents |-> <<>>]
  /\ aes_iv = [a \in Agents |-> 0]
  /\ aes_output = [a \in Agents |-> <<>>]
  /\ aes_r = [a \in Agents |-> 0]
  /\ aes_entry = [a \in Agents |->
                    [ctx |-> NoContext, output |-> <<>>, iv |-> 0]]
  /\ aes_acquired = [a \in Agents |-> FALSE]
  /\ aes_cleared = [a \in Agents |-> FALSE]
  /\ aes_origin = [a \in Agents |-> NoOrigin]
  /\ aes_roundtrip = [a \in Agents |-> FALSE]
  /\ aes_calls = [a \in Agents |-> 0]

(* The AES state while the model looks at the SHA engines or the boot. *)
AesIdle == InitAes("none")

(* The call of entry point f by agent a. *)
AesCallable(a) ==
  /\ aes_pc[a] = "idle"
  /\ a \in AesCallers
  /\ SumAesCalls(Agents) < MaxAesCalls

AesCall(a, f, mode, length, in, iv) ==
  /\ aes_pc' = [aes_pc EXCEPT ![a] = IF f = "cbc" THEN "len" ELSE "key"]
  /\ aes_fn' = [aes_fn EXCEPT ![a] = f]
  /\ aes_mode' = [aes_mode EXCEPT ![a] = mode]
  /\ aes_length' = [aes_length EXCEPT ![a] = length]
  /\ aes_input' = [aes_input EXCEPT ![a] = in]
  /\ aes_iv' = [aes_iv EXCEPT ![a] = iv]
  /\ aes_entry' = [aes_entry EXCEPT
                     ![a] = [ctx |-> ctx[a], output |-> aes_output[a],
                             iv |-> iv]]
  /\ aes_acquired' = [aes_acquired EXCEPT ![a] = FALSE]
  /\ aes_cleared' = [aes_cleared EXCEPT ![a] = FALSE]
  /\ aes_roundtrip' = [aes_roundtrip EXCEPT
       ![a] = /\ f = "cbc"
              /\ mode = CYPHER_DECRYPT
              /\ aes_origin[a].valid
              /\ in = aes_output[a]
              /\ iv = aes_origin[a].iv]
  /\ aes_calls' = [aes_calls EXCEPT ![a] = @ + 1]
  /\ UNCHANGED <<ctx, aes_output, aes_r, aes_origin, aes_load>>
  /\ UNCHANGED <<shaVars, bootVars>>

(* esp_aes.c:127-130  esp_internal_aes_encrypt(ctx, input, output) *)
esp_internal_aes_encrypt(a) ==
  /\ AesCallable(a)
  /\ \E in \in AesInputs(AES_BLOCK_BYTES) :
       AesCall(a, "encrypt", CYPHER_ENCRYPT, AES_BLOCK_BYTES, in, 0)

(* esp_aes.c:159-162  esp_internal_aes_decrypt(ctx, input, output) *)
esp_internal_aes_decrypt(a) ==
  /\ AesCallable(a)
  /\ \E in \in AesInputs(AES_BLOCK_BYTES) :
       AesCall(a, "decrypt", CYPHER_DECRYPT, AES_BLOCK_BYTES, in, 0)

(* esp_aes.c:183-187  esp_aes_crypt_ecb(ctx, mode, input, output) *)
esp_aes_crypt_ecb(a) ==
  /\ AesCallable(a)
  /\ \E mode \in AesModes, in \in AesInputs(AES_BLOCK_BYTES) :
       AesCall(a, "ecb", mode, AES_BLOCK_BYTES, in, 0)

(* esp_aes.c:210-220  esp_aes_crypt_cbc(ctx, mode, length, iv, input, output) *)
esp_aes_crypt_cbc(a) ==
  /\ AesCallable(a)
  /\ \E mode \in AesModes, length \in AesLengths, iv \in AesData :
       \E in \in AesInputs(length) : AesCall(a, "cbc", mode, length, in, iv)

(* esp_aes_crypt_cbc without its test of the length. *)
aes_check_length_skipped(a) ==
  /\ aes_pc[a] = "len"
  /\ aes_pc' = [aes_pc EXCEPT ![a] = "key"]
  /\ UNCHANGED <<ctx, aes_fn, aes_mode, aes_length, aes_input, aes_iv,
                 aes_output, aes_r, aesHist>>
  /\ UNCHANGED <<shaVars, bootVars>>

(* esp_aes.c:222-224  if ( length % 16 ) return invalid input length *)
aes_check_length(a) ==
  /\ aes_pc[a] = "len"
  /\ IF aes_length[a] % AES_BLOCK_BYTES # 0
       THEN /\ aes_r' = [aes_r EXCEPT ![a] = ERR_ESP_AES_INVALID_INPUT_LENGTH]
            /\ aes_pc' = [aes_pc EXCEPT ![a] = "ret"]
       ELSE /\ aes_pc' = [aes_pc EXCEPT ![a] = "key"]
            /\ UNCHANGED aes_r
  /\ UNCHANGED <<ctx, aes_fn, aes_mode, aes_length, aes_input, aes_iv,
                 aes_output, aesHist>>
  /\ UNCHANGED <<shaVars, bootVars>>

(* The entry points without their test of the key length. *)
aes_check_key_skipped(a) ==
  /\ aes_pc[a] = "key"
  /\ aes_pc' = [aes_pc EXCEPT ![a] = "acquire"]
  /\ UNCHANGED <<ctx, aes_fn, aes_mode, aes_length, aes_input, aes_iv,
                 aes_output, aes_r, aesHist>>
  /\ UNCHANGED <<shaVars, bootVars>>

(* esp_aes.c:133-135, 165-167, 190-192, 226-228                            *)
(* if (!valid_key_length(ctx)) return MBEDTLS_ERR_AES_INVALID_KEY_LENGTH   *)
aes_check_key(a) ==
  /\ aes_pc[a] = "key"
  /\ IF ~valid_key_length(ctx[a])
       THEN /\ aes_r' = [aes_r EXCEPT
                           ![a] = MBEDTLS_ERR_AES_INVALID_KEY_LENGTH]
            /\ aes_pc' = [aes_pc EXCEPT ![a] = "ret"]
       ELSE /\ aes_pc' = [aes_pc EXCEPT ![a] = "acquire"]
            /\ UNCHANGED aes_r
  /\ UNCHANGED <<ctx, aes_fn, aes_mode, aes_length, aes_input, aes_iv,
                 aes_output, aesHist>>
  /\ UNCHANGED <<shaVars, bootVars>>

(* esp_aes.c:54-59  esp_aes_acquire_hardware(): the body is commented out, *)
(* the call returns at once whoever else is between acquire and release.   *)
esp_aes_acquire_hardware(a) ==
  /\ aes_pc[a] = "acquire"
  /\ aes_pc' = [aes_pc EXCEPT ![a] = "clear"]
  /\ aes_acquired' = [aes_acquired EXCEPT ![a] = TRUE]
  /\ UNCHANGED <<ctx, aes_fn, aes_mode, aes_length, aes_input, aes_iv,
                 aes_output, aes_r>>
  /\ UNCHANGED <<aes_entry, aes_cleared, aes_origin, aes_roundtrip,
                 aes_calls, aes_load>>
  /\ UNCHANGED <<shaVars, bootVars>>

(* esp_aes.c:138, 170, 195, 231  ctx->key_in_hardware = 0 *)
aes_clear_resident(a) ==
  /\ aes_pc[a] = "clear"
  /\ ctx' = [ctx EXCEPT ![a].key_in_hardware = 0]
  /\ aes_pc' = [aes_pc EXCEPT ![a] = "run"]
  /\ UNCHANGED <<aes_fn, aes_mode, aes_length, aes_input, aes_iv,
                 aes_output, aes_r, aesHist>>
  /\ UNCHANGED <<shaVars, bootVars>>

(* The last two arguments of the call of aes_cypher:                       *)
(* esp_aes.c:140, 172, 197 and 233.  esp_aes_crypt_ecb passes              *)
(* CYPHER_DECRYPT whatever its mode argument is.                           *)
AesCypherMode(a) ==
  IF aes_fn[a] = "cbc" THEN "AES_MODE_CBC" ELSE "AES_MODE_ECB"

(* Every entry point passing CYPHER_DECRYPT, as esp_aes_crypt_ecb does. *)
AesCypherEncryptIgnoringMode(a) ==
  IF aes_fn[a] = "encrypt" THEN CYPHER_ENCRYPT ELSE CYPHER_DECRYPT

AesCypherEncrypt(a) ==
  IF aes_fn[a] = "encrypt" THEN CYPHER_ENCRYPT
  ELSE IF aes_fn[a] = "cbc" THEN aes_mode[a]
  ELSE CYPHER_DECRYPT

(* esp_aes.c:139, 171, 196, 232  the run of aes_cypher begins *)
aes_cypher_begin(a) ==
  /\ aes_pc[a] = "run"
  /\ aes_pc' = [aes_pc EXCEPT ![a] = "in_run"]
  /\ aes_cleared' = [aes_cleared EXCEPT ![a] = (ctx[a].key_in_hardware = 0)]
  /\ UNCHANGED <<ctx, aes_fn, aes_mode, aes_length, aes_input, aes_iv,
                 aes_output, aes_r>>
  /\ UNCHANGED <<aes_entry, aes_acquired, aes_origin, aes_roundtrip,
                 aes_calls, aes_load>>
  /\ UNCHANGED <<shaVars, bootVars>>

(* The IV after a CBC run: the last block of ciphertext. *)
AesNextIv(a, out) ==
  IF aes_fn[a] # "cbc" \/ aes_input[a] = <<>> THEN aes_iv[a]
  ELSE IF aes_mode[a] = CYPHER_ENCRYPT THEN out[Len(out)]
  ELSE aes_input[a][Len(aes_input[a])]

(* esp_aes.c:139, 171, 196, 232  r = aes_cypher(...): the run ends, with   *)
(* 0 and the output written, or with an error.                             *)
aes_cypher_end(a) ==
  /\ aes_pc[a] = "in_run"
  /\ \E ok \in BOOLEAN :
       IF ok
         THEN LET out == aes_cypher(aes_input[a], aes_iv[a], ctx[a].key,
                                    AesCypherMode(a), AesCypherEncrypt(a))
              IN /\ aes_output' = [aes_output EXCEPT ![a] = out]
                 /\ aes_iv' = [aes_iv EXCEPT ![a] = AesNextIv(a, out)]
                 /\ aes_r' = [aes_r EXCEPT ![a] = 0]
         ELSE /\ aes_r' = [aes_r EXCEPT ![a] = AesRunFailed]
              /\ UNCHANGED <<aes_output, aes_iv>>
  /\ aes_pc' = [aes_pc EXCEPT ![a] = "set"]
  /\ UNCHANGED <<ctx, aes_fn, aes_mode, aes_length, aes_input, aesHist>>
  /\ UNCHANGED <<shaVars, bootVars>>

(* The value key_in_hardware gets after a successful run:                  *)
(* esp_aes.c:142 and 199 ctx->key_bytes, 174 the number 16, 235 length.    *)
AesResident(a) ==
  IF aes_fn[a] = "decrypt" THEN ResidentAfterDecrypt
  ELSE IF aes_fn[a] = "cbc" THEN aes_length[a]
  ELSE ctx[a].key_bytes

(* esp_aes.c:141-143, 173-175, 198-200, 234-236  if (!r) key_in_hardware = *)
aes_set_resident(a) ==
  /\ aes_pc[a] = "set"
  /\ IF aes_r[a] = 0
       THEN ctx' = [ctx EXCEPT ![a].key_in_hardware = AesResident(a)]
       ELSE UNCHANGED ctx
  /\ aes_pc' = [aes_pc EXCEPT ![a] = "release"]
  /\ UNCHANGED <<aes_fn, aes_mode, aes_length, aes_input, aes_iv,
                 aes_output, aes_r, aesHist>>
  /\ UNCHANGED <<shaVars, bootVars>>

(* esp_aes.c:61-67  esp_aes_release_hardware(): the body is commented out *)
esp_aes_release_hardware(a) ==
  /\ aes_pc[a] = "release"
  /\ aes_pc' = [aes_pc EXCEPT ![a] = "ret"]
  /\ UNCHANGED <<ctx, aes_fn, aes_mode, aes_length, aes_input, aes_iv,
                 aes_output, aes_r, aesHist>>
  /\ UNCHANGED <<shaVars, bootVars>>

(* esp_aes.c:145, 177, 203, 239 and the returns of the checks: the caller  *)
(* has the result.  It remembers the plaintext and the IV of a successful  *)
(* CBC encryption for as long as the output buffer holds its ciphertext.   *)
aes_return(a) ==
  /\ aes_pc[a] = "ret"
  /\ aes_pc' = [aes_pc EXCEPT ![a] = "idle"]
  /\ aes_origin' = [aes_origin EXCEPT
       ![a] = IF aes_r[a] # 0 THEN @
              ELSE IF aes_fn[a] = "cbc" /\ aes_mode[a] = CYPHER_ENCRYPT
                THEN [valid |-> TRUE, plain |-> aes_input[a],
                      iv |-> aes_entry[a].iv]
              ELSE NoOrigin]
  /\ aes_fn' = [aes_fn EXCEPT ![a] = "none"]
  /\ aes_mode' = [aes_mode EXCEPT ![a] = 0]
  /\ aes_length' = [aes_length EXCEPT ![a] = 0]
  /\ aes_input' = [aes_input EXCEPT ![a] = <<>>]
  /\ aes_iv' = [aes_iv EXCEPT ![a] = 0]
  /\ aes_r' = [aes_r EXCEPT ![a] = 0]
  /\ aes_entry' = [aes_entry EXCEPT
                     ![a] = [ctx |-> NoContext, output |-> <<>>, iv |-> 0]]
  /\ aes_acquired' = [aes_acquired EXCEPT ![a] = FALSE]
  /\ aes_cleared' = [aes_cleared EXCEPT ![a] = FALSE]
  /\ aes_roundtrip' = [aes_roundtrip EXCEPT ![a] = FALSE]
  /\ UNCHANGED <<ctx, aes_output, aes_calls, aes_load>>
  /\ UNCHANGED <<shaVars, bootVars>>

(* The boot state while the SHA engines are in use: the boot has ended.    *)
BootIdle ==
  /\ cfg = CHOOSE c \in Configs : TRUE
  /\ s_cpu_up = [i \in Cores |-> FALSE]
  /\ s_cpu_inited = [i \in Cores |-> FALSE]
  /\ s_resume_cores = FALSE
  /\ g_spiram_ok = TRUE
  /\ bss = "zero"
  /\ rtc_bss = "zero"
  /\ rwdt_disabled = FALSE
  /\ core_pc = [i \in Cores |-> "scheduler"]
  /\ cpus_flag = FALSE
  /\ poll_i = 0
  /\ handoffs = [i \in Cores |-> 0]
  /\ polls = {}
  /\ writers = {}

(* The SHA state during the boot: no agent runs yet. *)
ShaIdle == InitSha("none") /\ ndebug = TRUE

(***************************************************************************)
(* The SHA engine arbitration as a whole.                                  *)
(***************************************************************************)
LockStep(a) ==
  \/ esp_sha_try_lock_engine(a)
  \/ esp_sha_lock_engine(a)
  \/ sha_get_engine_state_read(a)
  \/ sha_get_engine_state_create(a)
  \/ sha_get_engine_state_reread(a)
  \/ xSemaphoreTake(a)
  \/ sem_wait_interrupted(a)
  \/ lock_check_result(a)
  \/ lock_enter_critical(a)
  \/ lock_enable_periph(a)
  \/ lock_increment(a)
  \/ lock_exit_critical(a)
  \/ lock_return(a)
  \/ esp_sha_unlock_engine(a)
  \/ unlock_enter_critical(a)
  \/ unlock_decrement(a)
  \/ unlock_disable_periph(a)
  \/ unlock_exit_critical(a)
  \/ xSemaphoreGive(a)

HashStep(a) ==
  \/ esp_sha_block(a)
  \/ esp_sha_read_digest_state(a)
  \/ assert_engine_locked(a)
  \/ sha_hal_wait_idle(a)
  \/ esp_sha_lock_memory_block(a)
  \/ block_transform(a)
  \/ digest_read(a)
  \/ esp_sha_unlock_memory_block(a)

NextSha == \E a \in Agents : LockStep(a)

NextShaHash == (\E a \in Agents : LockStep(a) \/ HashStep(a)) \/ hw_done

InitArbitration == InitSha("arbitration") /\ BootIdle /\ AesIdle

SpecSha == InitArbitration /\ [][NextSha]_vars

InitSessions == InitSha("sessions") /\ BootIdle /\ AesIdle

SpecShaHash == InitSessions /\ [][NextShaHash]_vars

(* Fair scheduling of the agents: an agent inside a call that is not      *)
(* suspended makes its next step, and an agent that holds an engine calls  *)
(* esp_sha_unlock_engine.  New lock calls and signals are not forced.      *)
AgentRuns(a) ==
  \/ sha_get_engine_state_read(a)
  \/ sha_get_engine_state_create(a)
  \/ sha_get_engine_state_reread(a)
  \/ xSemaphoreTake(a)
  \/ lock_check_result(a)
  \/ lock_enter_critical(a)
  \/ lock_enable_periph(a)
  \/ lock_increment(a)
  \/ lock_exit_critical(a)
  \/ lock_return(a)
  \/ esp_sha_unlock_engine(a)
  \/ unlock_enter_critical(a)
  \/ unlock_decrement(a)
  \/ unlock_disable_periph(a)
  \/ unlock_exit_critical(a)
  \/ xSemaphoreGive(a)

SpecShaLive ==
  InitArbitration /\ [][NextSha]_vars /\ \A a \in Agents : WF_vars(AgentRuns(a))

(* Callers that lock a second engine while they hold one. *)
NextShaNested ==
  \E a \in Agents : LockStep(a) \/ esp_sha_lock_engine_holding(a)

InitNested == InitSha("nested") /\ BootIdle /\ AesIdle

SpecShaNested == InitNested /\ [][NextShaNested]_vars

InitStartup == InitBoot /\ ShaIdle /\ AesIdle

SpecBoot == InitStartup /\ [][NextBoot]_vars

(* Each core that is running goes on executing its boot routine. *)
Cpu0Step ==
  \/ cpu0_reset_reasons
  \/ cpu0_clear_bss
  \/ cpu0_spiram_init
  \/ cpu0_up
  \/ start_other_core
  \/ cpu0_poll_up_test
  \/ cpu0_poll_up_read
  \/ cpu0_memtest
  \/ cpu0_periph_init
  \/ cpu0_inited
  \/ cpu0_poll_inited_test
  \/ cpu0_poll_inited_read
  \/ SYS_STARTUP_FN(0)
  \/ startup_resume_other_cores

Cpu1Step ==
  \/ cpu1_start
  \/ cpu1_up
  \/ cpu1_inited
  \/ cpu1_wait_resume
  \/ SYS_STARTUP_FN(1)

SpecBootLive ==
  InitStartup /\ [][NextBoot]_vars /\ WF_vars(Cpu0Step) /\ WF_vars(Cpu1Step)

(* The cipher entry points, called while the engines and the boot rest.    *)
NextAes ==
  \E a \in Agents :
    \/ esp_internal_aes_encrypt(a)
    \/ esp_internal_aes_decrypt(a)
    \/ esp_aes_crypt_ecb(a)
    \/ esp_aes_crypt_cbc(a)
    \/ aes_check_length(a)
    \/ aes_check_key(a)
    \/ esp_aes_acquire_hardware(a)
    \/ aes_clear_resident(a)
    \/ aes_cypher_begin(a)
    \/ aes_cypher_end(a)
    \/ aes_set_resident(a)
    \/ esp_aes_release_hardware(a)
    \/ aes_return(a)

InitCipher ==
  /\ \E load \in {"cipher", "concurrent"} : InitAes(load)
  /\ ShaIdle
  /\ BootIdle

SpecAes == InitCipher /\ [][NextAes]_vars

(***************************************************************************)
(* Properties of the engine arbitration (sha.c), checked under SpecSha.    *)
(***************************************************************************)
(* An agent holds an engine from the return of the lock call that told it  *)
(* so (acquired) to the give at the end of its unlock.                     *)
EngineOf(a) == sha_engine_index(sha_type[a])

Holders(e) == {a \in Agents : acquired[a] /\ EngineOf(a) = e}

LockedEngines == {e \in Engines : Holders(e) # {}}

(* No agent is inside a lock or an unlock call, so none is inside the      *)
(* engines_in_use critical section or between a take and its count.        *)
Quiescent == \A a \in Agents : pc[a] \in {"idle", "session"}

(* C1: at every point where no agent is inside the engines_in_use critical *)
(* section (here: inside no lock or unlock call at all), engines_in_use is *)
(* the number of engines that are locked, and the SHA peripheral is        *)
(* enabled if and only if engines_in_use > 0.                              *)
C1_CounterMatchesLockedEngines ==
  Quiescent =>
    /\ engines_in_use = Cardinality(LockedEngines)
    /\ periph_enabled <=> (engines_in_use > 0)

(* C2: between a successful acquire and the matching unlock no other agent *)
(* acquires the same engine index: at most one agent holds a given engine. *)
(* Only holders whose sem_wait returned OK are counted.                    *)
C2_AtMostOneHolderPerEngine ==
  \A e \in Engines :
    Cardinality({a \in Holders(e) : tokenHeld[a] # NULL}) <= 1

(* C4: esp_sha_try_lock_engine called while another agent has the token of *)
(* the engine is never suspended: the agent inside the try-lock call       *)
(* (ticks_to_wait = 0) never waits on the engine token.                    *)
C4_TryLockNeverSuspended ==
  \A a \in Agents :
    (/\ fn[a] = "lock"
     /\ ticks_to_wait[a] = NoWaitTicks
     /\ \E b \in Agents \ {a} : tokenHeld[b] = engine_state[a])
      => pc[a] # "take_wait"

(* The agents have made at most one call each, on distinct engines: every  *)
(* call found its engine free.                                             *)
FirstCallsOnDistinctEngines ==
  /\ \A a \in Agents : calls[a] <= 1
  /\ \A a, b \in Agents :
       (a # b /\ calls[a] = 1 /\ calls[b] = 1) => EngineOf(a) # EngineOf(b)

(* C5: concurrent esp_sha_try_lock_engine calls on distinct engines that   *)
(* are all free all return true.                                           *)
C5_TryLocksOfFreeEnginesReturnTrue ==
  FirstCallsOnDistinctEngines =>
    \A a \in Agents :
      (pc[a] = "l_ret" /\ ticks_to_wait[a] = NoWaitTicks) => ret[a]

(* C6: when esp_sha_lock_engine_common has taken the engine token (its     *)
(* sem_wait returned OK) it returns true, with the engine counted and the  *)
(* peripheral enabled.                                                     *)
C6_TakenTokenReturnsTrue ==
  \A a \in Agents :
    (pc[a] = "l_ret" /\ tokenHeld[a] # NULL) =>
      (ret[a] /\ engines_in_use > 0 /\ periph_enabled)

(* C7: while an agent is inside esp_sha_unlock_engine and has not yet      *)
(* given back the token it took, no other agent takes the token of that    *)
(* engine.                                                                 *)
InUnlockBeforeGive(a) ==
  /\ fn[a] = "unlock"
  /\ pc[a] \in {"u_enter", "u_enter_wait", "u_dec", "u_test", "u_exit", "u_give"}
  /\ tokenHeld[a] # NULL

C7_NoAcquireBeforeUnlockCompletes ==
  [][\A a, b \in Agents :
       (a # b /\ InUnlockBeforeGive(a) /\ tokenHeld[b] # tokenHeld[a])
         => tokenHeld'[b] # tokenHeld[a]]_vars

(* C8: two agents that acquire two distinct engines, blocking or not, both *)
(* succeed, and neither waited.                                            *)
C8_DistinctEnginesBothSucceed ==
  FirstCallsOnDistinctEngines =>
    \A a \in Agents : pc[a] = "l_ret" => (ToldHolder(a) /\ ~waited[a])

(***************************************************************************)
(* Properties of the hash sessions (sha.c), checked under SpecShaHash.     *)
(***************************************************************************)
(* The agent is inside sha_hal_hash_block or sha_hal_read_digest. *)
AccessesRegisters(a) == pc[a] \in {"b_hash", "d_read"}

(* C9: an agent that is accessing the SHA registers holds the instance     *)
(* token of the engine it drives (the token engine_states keeps for that   *)
(* engine) and the register-window lock memory_block_lock.                 *)
C9_RegisterAccessHoldsTokenAndLock ==
  \A a \in Agents :
    AccessesRegisters(a) =>
      /\ tokenHeld[a] # NULL
      /\ tokenHeld[a] = engine_states[EngineOf(a)]
      /\ memory_block_lock = a

(* Every other agent has made no call, or is in its first call or session  *)
(* and on another engine than a.                                           *)
OthersOnOtherEngines(a) ==
  \A b \in Agents \ {a} :
    \/ calls[b] = 0
    \/ calls[b] = 1 /\ pc[b] # "idle" /\ EngineOf(b) # EngineOf(a)

(* C10: an agent that locked an engine, fed it K blocks and read the       *)
(* digest state, all before unlocking, has read the digest of a single     *)
(* computation over those K blocks, whatever the other agents do on the    *)
(* other engines.                                                          *)
C10_SessionReadsDigestOfItsBlocks ==
  \A a \in Agents :
    (pc[a] = "digested" /\ OthersOnOtherEngines(a)) =>
      digest_state[a] = Digest(sha_type[a], fed[a])

(***************************************************************************)
(* Properties of the boot (cpu_start.c), checked under SpecBoot.           *)
(***************************************************************************)
(* The cores that run a boot routine: core 0, and core 1 in a dual-core    *)
(* build on a chip whose app CPU is not disabled.                          *)
RunningCores ==
  IF cfg.single_core \/ cfg.app_cpu_disabled THEN {0} ELSE Cores

(* Every boot routine that runs has handed off to the scheduler. *)
BootComplete == \A i \in RunningCores : core_pc[i] = "scheduler"

(* C3 (as stated): in a single-core build the hand-off has been invoked    *)
(* exactly once when the boot has completed, and in a dual-core build,     *)
(* with the app CPU enabled or disabled, every core's s_cpu_up[i] and      *)
(* s_cpu_inited[i] are true and the hand-off has been invoked exactly once *)
(* per core.                                                               *)
C3_AllFlagsSetAndHandoffPerCore ==
  BootComplete =>
    IF cfg.single_core
      THEN handoffs[0] = 1
      ELSE \A i \in Cores :
             s_cpu_up[i] /\ s_cpu_inited[i] /\ handoffs[i] = 1

(* C3 (amended): the hand-off is never invoked twice on a core, and when   *)
(* the boot has completed it has been invoked exactly once on every        *)
(* running core and never on another one; in a dual-core build the up flag *)
(* of every running core and the initialized flag of every core are true,  *)
(* and the up flag of a disabled app CPU is false; a single-core build has *)
(* no flags.                                                               *)
C3_RunningCoresReadyAndHandedOffOnce ==
  /\ \A i \in Cores : handoffs[i] <= 1
  /\ BootComplete =>
       /\ \A i \in Cores : handoffs[i] = (IF i \in RunningCores THEN 1 ELSE 0)
       /\ ~cfg.single_core =>
            /\ \A i \in Cores : s_cpu_up[i] <=> (i \in RunningCores)
            /\ \A i \in Cores : s_cpu_inited[i]
       /\ cfg.single_core =>
            \A i \in Cores : ~s_cpu_up[i] /\ ~s_cpu_inited[i]

(* A dual-core boot with both cores running has completed. *)
C3_BothCoresHandedOff ==
  /\ BootComplete
  /\ RunningCores = Cores
  /\ handoffs = [i \in Cores |-> 1]

(* The app CPU of a dual-core build is disabled by the efuse bit. *)
FusedOff == ~cfg.single_core /\ cfg.app_cpu_disabled

(* C11 (as stated): with the secondary core fused off, call_start_cpu0     *)
(* never executes a pass of a peer-wait loop, neither of the wait on the   *)
(* up flags nor of the wait on the initialized flags.                      *)
C11_FusedOffNeverEntersPollLoop ==
  FusedOff =>
    /\ polls = {}
    /\ core_pc[0] \notin {"poll_up", "poll_up_body",
                          "poll_inited", "poll_inited_body"}

(* C11 (amended): with the secondary core fused off, call_start_cpu0 never *)
(* executes the wait on the up flags; it does execute the wait on the      *)
(* initialized flags, whose pass finds every entry set (s_cpu_inited[1] by *)
(* the primary core itself) and ends with cpus_inited true, so that the    *)
(* pass it executes is the only one; core 1 never runs.                    *)
C11_FusedOffSkipsUpWaitAndPollsInitedOnce ==
  FusedOff =>
    /\ "poll_up" \notin polls
    /\ core_pc[0] \notin {"poll_up", "poll_up_body"}
    /\ core_pc[1] = "reset"
    /\ core_pc[0] = "poll_inited_body" =>
         /\ cpus_flag
         /\ \A i \in Cores : s_cpu_inited[i]
    /\ (core_pc[0] = "poll_inited" /\ "poll_inited" \in polls) => cpus_flag
    /\ core_pc[0] \in {"handoff", "scheduler"} => polls = {"poll_inited"}

(* With the secondary core fused off the primary core has handed off,      *)
(* after its pass of the wait on the initialized flags.                    *)
C11_FusedOffHandedOff ==
  /\ FusedOff
  /\ core_pc[0] = "scheduler"
  /\ handoffs[0] = 1
  /\ polls = {"poll_inited"}

(***************************************************************************)
(* Properties of the block-cipher entry points (esp_aes.c), checked under  *)
(* SpecAes.                                                                *)
(***************************************************************************)
BadLength(a) ==
  aes_fn[a] = "cbc" /\ aes_length[a] % AES_BLOCK_BYTES # 0

(* C12: esp_aes_crypt_cbc called with a length that is not a multiple of   *)
(* 16 returns the invalid-input-length error; it never reaches the         *)
(* acquire of the hardware or the cipher run, and at its return the        *)
(* context (key_in_hardware included), the IV and the output buffer are as *)
(* they were at the call.                                                  *)
C12_BadLengthFailsWithoutHardware ==
  \A a \in Agents :
    BadLength(a) =>
      /\ aes_pc[a] \in {"len", "ret"}
      /\ ~aes_acquired[a]
      /\ ctx[a] = aes_entry[a].ctx
      /\ aes_iv[a] = aes_entry[a].iv
      /\ aes_output[a] = aes_entry[a].output
      /\ aes_pc[a] = "ret" => aes_r[a] = ERR_ESP_AES_INVALID_INPUT_LENGTH

(* A call with a bad length has returned, made with a context whose        *)
(* key_in_hardware was set and with an output buffer that held a result.   *)
C12_BadLengthReturned ==
  \E a \in Agents :
    /\ BadLength(a)
    /\ aes_pc[a] = "ret"
    /\ aes_r[a] = ERR_ESP_AES_INVALID_INPUT_LENGTH
    /\ valid_key_length(ctx[a])
    /\ ctx[a].key_in_hardware # 0
    /\ aes_output[a] # <<>>

InAesCall(a) == aes_pc[a] # "idle"

(* C13 (as stated): every entry point called with a context whose key      *)
(* length is unsupported returns the invalid-key-length error, before the  *)
(* acquire of the hardware, and leaves the context unchanged.              *)
C13_BadKeyReturnsKeyLengthError ==
  \A a \in Agents :
    (InAesCall(a) /\ ~valid_key_length(ctx[a])) =>
      /\ ~aes_acquired[a]
      /\ ctx[a] = aes_entry[a].ctx
      /\ aes_pc[a] = "ret" => aes_r[a] = MBEDTLS_ERR_AES_INVALID_KEY_LENGTH

(* C13 (amended): every entry point called with a context whose key length *)
(* is unsupported returns an error before the acquire of the hardware and  *)
(* leaves the context unchanged; the error is the invalid-key-length       *)
(* error, except for esp_aes_crypt_cbc called with a length that is not a  *)
(* multiple of 16, which tests the length first and returns the            *)
(* invalid-input-length error.                                             *)
C13_BadKeyFailsBeforeAcquire ==
  \A a \in Agents :
    (InAesCall(a) /\ ~valid_key_length(ctx[a])) =>
      /\ aes_pc[a] \in {"len", "key", "ret"}
      /\ ~aes_acquired[a]
      /\ ctx[a] = aes_entry[a].ctx
      /\ aes_output[a] = aes_entry[a].output
      /\ aes_pc[a] = "ret" =>
           aes_r[a] = IF BadLength(a) THEN ERR_ESP_AES_INVALID_INPUT_LENGTH
                      ELSE MBEDTLS_ERR_AES_INVALID_KEY_LENGTH

(* esp_aes_crypt_cbc, called with a good length and an unsupported key     *)
(* length, has returned the invalid-key-length error.                      *)
C13_BadKeyReturned ==
  \E a \in Agents :
    /\ aes_pc[a] = "ret"
    /\ aes_fn[a] = "cbc"
    /\ aes_length[a] = MaxAesBlocks * AES_BLOCK_BYTES
    /\ ~valid_key_length(ctx[a])
    /\ aes_r[a] = MBEDTLS_ERR_AES_INVALID_KEY_LENGTH

(* C14: a CBC decryption of the ciphertext that a CBC encryption wrote,    *)
(* made with the same context (the same key) and the IV the encryption was *)
(* called with, writes the plaintext of the encryption, for every          *)
(* plaintext of 0 .. MaxAesBlocks blocks, every supported key length,      *)
(* every key and every IV.                                                 *)
C14_CbcRoundTripReproducesPlaintext ==
  \A a \in Agents :
    (aes_roundtrip[a] /\ aes_pc[a] = "ret" /\ aes_r[a] = 0) =>
      aes_output[a] = aes_origin[a].plain

(* A round trip over MaxAesBlocks blocks has ended with the plaintext in   *)
(* the output buffer, the ciphertext being different from the plaintext.   *)
C14_RoundTripDone ==
  \E a \in Agents :
    /\ aes_roundtrip[a]
    /\ aes_pc[a] = "ret"
    /\ aes_r[a] = 0
    /\ Len(aes_input[a]) = MaxAesBlocks
    /\ aes_input[a] # aes_origin[a].plain
    /\ aes_output[a] = aes_origin[a].plain

AfterRun(a) == aes_acquired[a] /\ aes_pc[a] \in {"release", "ret"}

(* C15: in every entry point key_in_hardware is 0 when the cipher run      *)
(* begins and during it; after a successful run it equals ctx->key_bytes;  *)
(* after a failed run it is still 0.                                       *)
C15_ResidentIsKeyBytesAfterSuccess ==
  \A a \in Agents :
    /\ aes_pc[a] \in {"run", "in_run", "set"} => ctx[a].key_in_hardware = 0
    /\ aes_pc[a] \in {"in_run", "set"} => aes_cleared[a]
    /\ (AfterRun(a) /\ aes_r[a] = 0) =>
         ctx[a].key_in_hardware = ctx[a].key_bytes
    /\ (AfterRun(a) /\ aes_r[a] # 0) => ctx[a].key_in_hardware = 0

InHardwareRun == {a \in Agents : aes_pc[a] = "in_run"}

(* C16: the acquire and the release of the hardware bracket every cipher   *)
(* run, so that at most one agent is inside a run of aes_cypher at any     *)
(* time.                                                                   *)
C16_AtMostOneAgentInHardwareRun ==
  /\ Cardinality(InHardwareRun) <= 1
  /\ \A a \in InHardwareRun : aes_acquired[a]

(***************************************************************************)
(* Further properties of the engine arbitration (sha.c).                   *)
(***************************************************************************)
(* C17: when every unlock is made by an agent that a lock call told it     *)
(* holds the engine, engines_in_use stays within 0 .. 3: the assert after  *)
(* the increment never fails and the uint8_t counter never wraps below 0.  *)
C17_CounterStaysInRange ==
  /\ engines_in_use \in 0 .. MaxEnginesInUse
  /\ ~aborted

(***************************************************************************)
(* Further properties of the hash sessions (sha.c), checked under          *)
(* SpecShaHash.                                                            *)
(***************************************************************************)
(* The agent is at the assert of esp_sha_block or esp_sha_read_digest_state *)
(* (a debug build), the token of its engine looked up.                     *)
AtLockedAssert(a) == pc[a] \in {"b_assert", "d_assert"}

(* The agent took the token that the assert looks at, and a lock call told *)
(* it that it holds the engine.                                            *)
HoldsAssertedToken(a) ==
  /\ acquired[a]
  /\ tokenHeld[a] # NULL
  /\ tokenHeld[a] = engine_state[a]

(* C18: an agent that has successfully locked an engine calls              *)
(* esp_sha_block and esp_sha_read_digest_state without the assertion "SHA  *)
(* engine should be locked" failing: at the assert the count of the token  *)
(* is 0.                                                                   *)
C18_HolderPassesLockedAssert ==
  \A a \in Agents :
    (AtLockedAssert(a) /\ HoldsAssertedToken(a)) => EngineLockedAssert(a)

(* C19: in a debug build the assertion of esp_sha_block and                *)
(* esp_sha_read_digest_state fails for a caller that has not itself taken  *)
(* the token of the engine, also when another agent holds that engine.     *)
C19_NonHolderFailsLockedAssert ==
  \A a \in Agents :
    (AtLockedAssert(a) /\ tokenHeld[a] # engine_state[a]) =>
      ~EngineLockedAssert(a)

(* The agent is between its take and its release of memory_block_lock. *)
InMemoryBlock(a) == pc[a] \in {"b_hash", "b_unlock", "d_read", "d_unlock"}

(* C20: memory_block_lock is held by at most one agent at a time, and by   *)
(* an agent only from the take to the release around its one               *)
(* sha_hal_hash_block or sha_hal_read_digest: no agent holds it when it    *)
(* enters esp_sha_block or esp_sha_read_digest_state, when it returns from *)
(* them, or between two calls of its session.                              *)
C20_MemoryBlockLockOnlyAroundOneTransform ==
  /\ memory_block_lock \in Agents \cup {0}
  /\ \A a \in Agents : InMemoryBlock(a) <=> memory_block_lock = a
  /\ Cardinality({a \in Agents : InMemoryBlock(a)}) <= 1

(* An agent holds the lock for the second block of its session while       *)
(* another agent is at the take of the lock.                               *)
C20_SecondBlockLockedWhileOtherSpins ==
  \E a \in Agents, b \in Agents :
    /\ a # b
    /\ memory_block_lock = a
    /\ pc[a] = "b_hash"
    /\ Len(fed[a]) = 1
    /\ pc[b] \in {"b_lock", "d_lock"}

(* The agent is in the idle wait of esp_sha_block or                       *)
(* esp_sha_read_digest_state, or has returned from it and not yet taken    *)
(* the lock.                                                               *)
InIdleWait(a) == pc[a] \in {"b_wait", "d_wait"}

IdleWaitDone(a) == pc[a] \in {"b_lock", "d_lock"}

(* C21: in esp_sha_block and esp_sha_read_digest_state the caller does not *)
(* hold memory_block_lock while it waits for the hardware to be idle; the  *)
(* wait returns when the hardware is idle; the lock is taken only after    *)
(* the wait has returned; then one transform or one read is done and the   *)
(* lock is released.                                                       *)
C21_IdleWaitThenLockThenOneTransform ==
  [][\A a \in Agents :
       /\ (InIdleWait(a) \/ IdleWaitDone(a)) => memory_block_lock # a
       /\ (IdleWaitDone(a)' /\ ~IdleWaitDone(a)) => (InIdleWait(a) /\ ~hw_busy)
       /\ (memory_block_lock' = a /\ memory_block_lock # a) =>
            /\ IdleWaitDone(a)
            /\ pc'[a] \in {"b_hash", "d_read"}
       /\ (pc[a] \in {"b_hash", "d_read"} /\ pc'[a] # pc[a]) =>
            /\ pc'[a] \in {"b_unlock", "d_unlock"}
            /\ memory_block_lock' = a
       /\ (pc[a] \in {"b_unlock", "d_unlock"} /\ pc'[a] # pc[a]) =>
            /\ pc'[a] \in {"session", "digested"}
            /\ memory_block_lock' = 0]_vars

(* An agent waits for the busy hardware, without the lock, while the agent *)
(* that started the transform has released the lock.                       *)
C21_WaitingForBusyHardware ==
  \E a \in Agents :
    /\ pc[a] = "b_wait"
    /\ hw_busy
    /\ memory_block_lock = 0
    /\ fed[a] # <<>>

(***************************************************************************)
(* Further properties of the boot (cpu_start.c), checked under SpecBoot.   *)
(***************************************************************************)
(* Core 0 is at the call of SYS_STARTUP_FN or has made it. *)
PrimaryAtHandoff == core_pc[0] \in {"handoff", "scheduler"}

(* C22: in a build that has the readiness flags (not the single-core mode, *)
(* which compiles them out), core 0 is at its call of SYS_STARTUP_FN, or   *)
(* past it, only in states where s_cpu_inited[0] and the s_cpu_inited      *)
(* entry of every core are true.                                           *)
C22_PrimaryHandsOffWhenAllInited ==
  (~cfg.single_core /\ PrimaryAtHandoff) =>
    /\ s_cpu_inited[0]
    /\ \A i \in Cores : s_cpu_inited[i]
    /\ handoffs[0] = 1 <=> core_pc[0] = "scheduler"

(* Both cores run; core 0 has left its wait on the initialized flags and   *)
(* called SYS_STARTUP_FN while core 1 waits for the resume flag.           *)
C22_PrimaryHandedOffAfterWait ==
  /\ RunningCores = Cores
  /\ core_pc[0] = "scheduler"
  /\ handoffs[0] = 1
  /\ "poll_inited" \in polls
  /\ core_pc[1] = "c1_wait"
  /\ \A i \in Cores : s_cpu_inited[i]

(* C23: core 1 is at its call of SYS_STARTUP_FN, or past it, only after it *)
(* has read s_resume_cores as true, and s_resume_cores is true only in     *)
(* states where core 0 has handed off and the s_cpu_inited entry of every  *)
(* core is true.                                                           *)
C23_SecondaryResumedAfterAllInited ==
  /\ core_pc[1] \in {"handoff", "scheduler"} => s_resume_cores
  /\ handoffs[1] > 0 => s_resume_cores
  /\ s_resume_cores =>
       /\ ~cfg.single_core
       /\ core_pc[0] = "scheduler"
       /\ \A i \in Cores : s_cpu_inited[i]

(* Core 1 has called SYS_STARTUP_FN, after the resume flag was set. *)
C23_SecondaryHandedOff ==
  /\ core_pc[1] = "scheduler"
  /\ handoffs[1] = 1
  /\ s_resume_cores
  /\ \A i \in Cores : s_cpu_inited[i]

(* A write <<c, flag, i>>: core c wrote s_cpu_up[i] or s_cpu_inited[i]. *)
OwnWrite(w) == w[1] = w[3]

(* C24 (as stated): every entry s_cpu_up[i], s_cpu_inited[i] is written    *)
(* only by core i.                                                         *)
C24_EntriesWrittenByOwnerOnly ==
  \A w \in writers : OwnWrite(w)

(* C24 (amended): every entry is written only by its own core, with one    *)
(* exception: on a chip whose app CPU is disabled core 0 writes            *)
(* s_cpu_inited[1], and core 1, which never runs, writes nothing.  No      *)
(* entry is ever written by two cores.                                     *)
C24_EntriesWrittenByOwnerOrForDisabledCore ==
  /\ \A w \in writers :
       \/ OwnWrite(w)
       \/ FusedOff /\ w = <<0, "inited", 1>>
  /\ FusedOff => \A w \in writers : w[1] = 0
  /\ \A v \in writers, w \in writers :
       (v[2] = w[2] /\ v[3] = w[3]) => v[1] = w[1]

(* Both cores run and each has written its two entries. *)
C24_BothCoresWroteTheirEntries ==
  /\ RunningCores = Cores
  /\ writers = {<<0, "up", 0>>, <<0, "inited", 0>>,
                <<1, "up", 1>>, <<1, "inited", 1>>}

(* esp_spiram_init() is called and fails; the external memory is mandatory *)
(* when the build keeps .bss in it or does not ignore its absence.         *)
SpiramInitFailed == cfg.spiram_boot_init /\ ~cfg.spiram_init_ok

SpiramMandatory == cfg.spiram_bss_ext \/ ~cfg.spiram_ignore_notfound

PastSpiramInit == core_pc[0] \notin {"start", "bss", "spiram"}

C25_SpiramSafety ==
  /\ (SpiramInitFailed /\ SpiramMandatory /\ PastSpiramInit) =>
       (core_pc[0] = "aborted" /\ handoffs[0] = 0 /\ g_spiram_ok)
  /\ (SpiramInitFailed /\ ~SpiramMandatory /\ PastSpiramInit) =>
       (~g_spiram_ok /\ core_pc[0] # "aborted")
  /\ ~SpiramInitFailed => g_spiram_ok

DeepSleepWake == cfg.rst_reas[1] = "DEEPSLEEP_RESET"

(* C26: when the reset reason of core 0 is DEEPSLEEP_RESET, call_start_cpu0 *)
(* leaves the RTC .bss as the sleep left it, at every point of the boot;   *)
(* for every other reset reason the RTC .bss is all zero once the memsets  *)
(* are done, and so before core 0 sets s_cpu_up[0].                        *)
C26_RtcBssKeptOnlyAfterDeepSleep ==
  /\ DeepSleepWake => rtc_bss = "kept"
  /\ (~DeepSleepWake /\ core_pc[0] \notin {"start", "bss"}) => rtc_bss = "zero"
  /\ (~DeepSleepWake /\ s_cpu_up[0]) => rtc_bss = "zero"
  /\ core_pc[0] \notin {"start", "bss"} => bss = "zero"

(* A boot after a wake from deep sleep has handed off, .bss cleared and    *)
(* the RTC .bss kept.                                                      *)
C26_DeepSleepBootHandedOff ==
  /\ DeepSleepWake
  /\ core_pc[0] = "scheduler"
  /\ bss = "zero"
  /\ rtc_bss = "kept"

(***************************************************************************)
(* Properties of the engine tokens (sha.c), checked under SpecSha.         *)
(***************************************************************************)
(* The agent is the only one that has called, and this is its first call:  *)
(* before the call every engine was free, engines_in_use was 0 and the     *)
(* peripheral was disabled.                                                *)
FirstCallAlone(a) ==
  /\ calls[a] = 1
  /\ \A b \in Agents \ {a} : calls[b] = 0

(* C27: an esp_sha_try_lock_engine call that returns false leaves          *)
(* engines_in_use, the enabled state of the SHA peripheral and every       *)
(* engine token as they were: here, for the first call made, the counter   *)
(* is 0, the peripheral is disabled, no agent has taken a token and every  *)
(* token that exists has the count of a new one.                           *)
C27_FailedTryLockChangesNothing ==
  \A a \in Agents :
    (/\ FirstCallAlone(a)
     /\ pc[a] = "l_ret"
     /\ ticks_to_wait[a] = NoWaitTicks
     /\ ~ret[a]) =>
      /\ engines_in_use = 0
      /\ ~periph_enabled
      /\ tokenHeld[a] = NULL
      /\ \A e \in Engines :
           engine_states[e] # NULL => semcount[engine_states[e]] = NewEngineCount

(* C28: every call of sha_get_engine_state for an engine index returns the *)
(* same token, also when two agents make the first reference to the engine *)
(* concurrently: the token a call has returned, and the token an agent has *)
(* taken, is the token engine_states holds for that engine.                *)
C28_OneTokenPerEngine ==
  \A a \in Agents :
    /\ (pc[a] \notin {"idle", "get_read", "get_create", "get_reread"}
          /\ engine_state[a] # NULL) =>
         engine_state[a] = engine_states[EngineOf(a)]
    /\ tokenHeld[a] # NULL => tokenHeld[a] = engine_states[EngineOf(a)]

(* The agents that have taken token h and not given it back. *)
TakersOf(h) == {a \in Agents : tokenHeld[a] = h}

(* C29: an engine token is a binary semaphore that starts available: the   *)
(* count of every token that exists is 0 or 1, and at most one take of a   *)
(* token succeeds before it is given back.                                 *)
C29_TokenCountIsBinary ==
  \A h \in Handles :
    semcount[h] # NoSem =>
      /\ semcount[h] \in {0, 1}
      /\ Cardinality(TakersOf(h)) <= 1

(* Agent a holds the engine for sha_type t: its lock call took the token   *)
(* (sem_wait returned OK) and the caller was told it holds the engine.     *)
HoldsFor(a, t) == acquired[a] /\ tokenHeld[a] # NULL /\ sha_type[a] = t

(* C30: SHA2_384 and SHA2_512 share one engine slot, so no agent holds the *)
(* engine for SHA2_512 while another holds it for SHA2_384, whereas SHA1,  *)
(* SHA2_256 and the SHA2_384/512 slot are three different instances.       *)
C30_Sha384And512ShareOneOfThreeSlots ==
  /\ sha_engine_index("SHA2_384") = sha_engine_index("SHA2_512")
  /\ Cardinality({sha_engine_index(t) :
                    t \in {"SHA1", "SHA2_256", "SHA2_384"}}) = 3
  /\ \A a, b \in Agents :
       a # b => ~(HoldsFor(a, "SHA2_384") /\ HoldsFor(b, "SHA2_512"))

(***************************************************************************)
(* The engines_in_use critical section (sha.c:204-215, :225-235).          *)
(***************************************************************************)
(* Agent a is between portENTER_CRITICAL and portEXIT_CRITICAL. *)
InCritical(a) ==
  pc[a] \in {"l_test", "l_inc", "l_exit", "u_dec", "u_test", "u_exit"}

(* The statements of the critical sections. *)
CriticalStep(a) ==
  \/ lock_enable_periph(a)
  \/ lock_increment(a)
  \/ lock_exit_critical(a)
  \/ unlock_decrement(a)
  \/ unlock_disable_periph(a)
  \/ unlock_exit_critical(a)

(* C31: no agent waits for an engine token while it holds the              *)
(* engines_in_use critical section: whenever the section is taken, its     *)
(* holder is at a statement of the section and not at the take of a token, *)
(* and every agent inside the section can make its next step whatever the  *)
(* holders of the engines do.                                              *)
C31_NoTokenWaitInsideCriticalSection ==
  /\ semcount[InUseLock] < InUseLockInit => \E a \in Agents : InCritical(a)
  /\ \A a \in Agents :
       (InCritical(a) /\ ~aborted) => ENABLED CriticalStep(a)

(* An agent is inside the critical section of its unlock while another     *)
(* agent is suspended waiting for the token the first one holds.           *)
C31_InsideSectionWhileOtherWaitsForToken ==
  \E a, w \in Agents :
    /\ InCritical(a)
    /\ fn[a] = "unlock"
    /\ pc[w] = "take_wait"
    /\ tokenHeld[a] = engine_state[w]

(***************************************************************************)
(* Callers that hold one engine and lock a second (SpecShaNested).         *)
(***************************************************************************)
(* Agent a holds the token of one engine and is suspended in the           *)
(* esp_sha_lock_engine of a second engine, whose token agent b took first  *)
(* and holds.                                                              *)
HoldsAndWaitsFor(a, b) ==
  /\ pc[a] = "take_wait"
  /\ first_held[a] # NoOuter
  /\ OuterToken(a) # NULL
  /\ OuterToken(b) # NULL
  /\ engine_state[a] = OuterToken(b)

(* Every agent waits for the token that another waiting agent holds. *)
Deadlocked ==
  \A a \in Agents : \E b \in Agents \ {a} : HoldsAndWaitsFor(a, b)

(* C32: agents that hold one engine and block in esp_sha_lock_engine for a *)
(* second can deadlock: when two agents that locked two engines in         *)
(* opposite orders each wait for the token the other holds, no statement   *)
(* of the program can run any more (the only steps left are interruptions  *)
(* of the waits by a signal), so both stay blocked.                        *)
C32_DeadlockedAgentsStayBlocked ==
  [][Deadlocked => \E w \in Agents : sem_wait_interrupted(w)]_vars

(* The deadlock is reached: agent 1 holds SHA1 and waits for SHA2_256,     *)
(* agent 2 holds SHA2_256 and waits for SHA1.                              *)
C32_OppositeOrderDeadlockReached ==
  /\ Deadlocked
  /\ first_held[1].type = "SHA1" /\ sha_type[1] = "SHA2_256"
  /\ first_held[2].type = "SHA2_256" /\ sha_type[2] = "SHA1"

(***************************************************************************)
(* Progress of the lock calls, checked under SpecShaLive.                  *)
(***************************************************************************)
InLockEngine(a) == fn[a] = "lock" /\ ticks_to_wait[a] = portMAX_DELAY

(* The call has returned and the caller holds the token of the engine. *)
ReturnedHolding(a) ==
  pc[a] = "session" /\ acquired[a] /\ tokenHeld[a] # NULL

(* Agent w is suspended on a token that no agent holds or is about to give *)
(* back: nothing will ever wake it.                                        *)
WaitsForLostToken(w) ==
  /\ pc[w] = "take_wait"
  /\ \A a \in Agents \ {w} : tokenHeld[a] # engine_state[w]

(* C33: when every agent holds at most one engine at a time and every      *)
(* holder calls esp_sha_unlock_engine, then under fair scheduling every    *)
(* esp_sha_lock_engine call returns with the caller holding the engine,    *)
(* and no agent is ever left waiting for a token nobody will give back.    *)
C33_EveryLockCallReturnsHolding ==
  /\ \A a \in Agents : InLockEngine(a) ~> ReturnedHolding(a)
  /\ [](\A w \in Agents : ~WaitsForLostToken(w))

(***************************************************************************)
(* The clock domain during a session, checked under SpecShaHash.           *)
(***************************************************************************)
(* C34: whenever an agent that acquired its engine through                 *)
(* esp_sha_lock_engine or a successful esp_sha_try_lock_engine performs a  *)
(* block transform or a digest read, the SHA peripheral is enabled.        *)
C34_PeripheralEnabledDuringTransform ==
  \A a \in Agents :
    (acquired[a] /\ AccessesRegisters(a)) => periph_enabled

(* Both cores of a dual-core build run. *)
SecondaryEnabled == ~cfg.single_core /\ ~cfg.app_cpu_disabled

(* The primary core is at esp_clk_init() (cpu_start.c:361) or later. *)
PastUpWait ==
  core_pc[0] \in {"periph", "inited", "poll_inited", "poll_inited_body",
                  "handoff", "scheduler"}

(* C36: on a chip whose secondary core is enabled, the primary core starts *)
(* esp_clk_init and the later steps only when every core's up flag is      *)
(* true, and its own s_cpu_up[0] is true from the moment the secondary     *)
(* core is released and for all of the poll.                               *)
C36_PrimaryInitsAfterAllCoresUp ==
  SecondaryEnabled =>
    /\ PastUpWait => \A i \in Cores : s_cpu_up[i]
    /\ core_pc[1] # "reset" => s_cpu_up[0]
    /\ core_pc[0] \in {"poll_up", "poll_up_body"} => s_cpu_up[0]

(* The primary core has left the wait on the up flags and is at its        *)
(* remaining initialisation, with the secondary core running.              *)
C36_PrimaryAtClockInitAfterPoll ==
  /\ SecondaryEnabled
  /\ core_pc[0] = "periph"
  /\ "poll_up" \in polls
  /\ core_pc[1] \notin {"reset", "c1_start", "c1_up"}

(* No flag goes back from true to false in this step. *)
FlagsStaySet ==
  \A i \in Cores :
    /\ s_cpu_up[i] => s_cpu_up'[i]
    /\ s_cpu_inited[i] => s_cpu_inited'[i]

(* C37 (as stated): in every reachable state of the boot, for every core   *)
(* i, s_cpu_inited[i] is true only if s_cpu_up[i] is true, and neither     *)
(* flag ever goes back from true to false.                                 *)
C37_InitedImpliesUpAndFlagsMonotonic ==
  /\ [](\A i \in Cores : s_cpu_inited[i] => s_cpu_up[i])
  /\ [][FlagsStaySet]_vars

(* C37 (amended): for every core i, s_cpu_inited[i] is true only if        *)
(* s_cpu_up[i] is true or core i is the app CPU of a chip that has it      *)
(* disabled (its initialized flag is then set by the primary core and its  *)
(* up flag stays false); neither flag ever goes back from true to false.   *)
C37_InitedImpliesUpOrDisabledAndFlagsMonotonic ==
  /\ [](\A i \in Cores :
          /\ s_cpu_inited[i] => (s_cpu_up[i] \/ (i = 1 /\ FusedOff))
          /\ (i = 1 /\ FusedOff) => ~s_cpu_up[i])
  /\ [][FlagsStaySet]_vars

(* Each of the two running cores has set its up flag and then its          *)
(* initialized flag; the primary core is still waiting.                    *)
C37_BothCoresUpAndInited ==
  /\ SecondaryEnabled
  /\ \A i \in Cores : s_cpu_up[i] /\ s_cpu_inited[i]
  /\ core_pc[0] \in {"poll_inited", "poll_inited_body"}

(***************************************************************************)
(* Progress of the boot, checked under SpecBootLive.                       *)
(***************************************************************************)
(* Both cores have invoked the scheduler entry point. *)
BothAtScheduler == \A i \in Cores : core_pc[i] = "scheduler"

(* C38: on a dual-core chip with both cores enabled, under fair execution  *)
(* of both cores and with startup_resume_other_cores called by the         *)
(* primary's startup function, both cores leave all their busy-poll loops  *)
(* and invoke the scheduler entry point, unless the primary core has       *)
(* stopped the boot with abort(): no core polls a flag for ever.           *)
C38_BothCoresReachScheduler ==
  SecondaryEnabled ~> (BothAtScheduler \/ core_pc[0] = "aborted")

(* Both cores are in the scheduler after the primary core went through     *)
(* both of its poll loops and the secondary core through its wait.         *)
C38_BothCoresLeftTheirPolls ==
  /\ SecondaryEnabled
  /\ BothAtScheduler
  /\ polls = {"poll_up", "poll_inited"}
  /\ s_resume_cores

(***************************************************************************)
(* esp_aes_crypt_ecb (esp_aes.c:183-204), checked under SpecAes.           *)
(***************************************************************************)
(* C39: esp_aes_crypt_ecb performs an encryption when its mode argument    *)
(* selects encryption and a decryption when it selects decryption: when    *)
(* the call returns 0, the output block is the input block encrypted,      *)
(* respectively decrypted, under the key of the context (so that the       *)
(* decryption of an encrypted block gives the block back).                 *)
C39_EcbRunsTheModeItIsGiven ==
  \A a \in Agents :
    (aes_fn[a] = "ecb" /\ aes_pc[a] = "ret" /\ aes_r[a] = 0) =>
      aes_output[a] = aes_cypher(aes_input[a], 0, ctx[a].key,
                                 "AES_MODE_ECB", aes_mode[a])

(***************************************************************************)
(* The RTC watchdog step of call_start_cpu0 (cpu_start.c:223-242),         *)
(* checked under SpecBoot.                                                 *)
(***************************************************************************)
(* call_start_cpu0 is past its test of the reset reasons. *)
PastResetReasons == core_pc[0] # "start"

(* The reset reason of a core is that of a watchdog: rst_reas[0] of core   *)
(* 0, and rst_reas[1] of core 1.                                           *)
WatchdogResetOnSomeCore ==
  \E i \in 1 .. SOC_CPU_CORES_NUM :
    cfg.rst_reas[i] \in {"RTCWDT_SYS_RESET", "TG0WDT_SYS_RESET"}

(* The reset reasons call_start_cpu0 reads: core 1's only in a dual-core   *)
(* build.                                                                  *)
WatchdogResetRead ==
  \/ cfg.rst_reas[1] \in {"RTCWDT_SYS_RESET", "TG0WDT_SYS_RESET"}
  \/ /\ ~cfg.single_core
     /\ cfg.rst_reas[2] \in {"RTCWDT_SYS_RESET", "TG0WDT_SYS_RESET"}

(* C40 (as stated): a watchdog reset reason, on either core, makes         *)
(* call_start_cpu0 skip the watchdog-disable step, and for every other     *)
(* reset reason the step is executed.                                      *)
C40_WatchdogResetSkipsDisable ==
  PastResetReasons => (rwdt_disabled <=> ~WatchdogResetOnSomeCore)

(* C40 (amended): call_start_cpu0 executes the RTC watchdog disable step   *)
(* exactly when the build has no CONFIG_BOOTLOADER_WDT_ENABLE and a reset  *)
(* reason it reads is that of a watchdog (RTC or timer group 0; core 1's   *)
(* reason is read in a dual-core build only); for every other reset        *)
(* reason the step is not executed.                                        *)
C40_WatchdogResetCausesDisable ==
  /\ ~PastResetReasons => ~rwdt_disabled
  /\ PastResetReasons =>
       (rwdt_disabled <=> (~cfg.bootloader_wdt /\ WatchdogResetRead))

(* The step was executed for a watchdog reset reason of core 1 alone. *)
C40_DisabledAfterCore1WatchdogReset ==
  /\ PastResetReasons
  /\ rwdt_disabled
  /\ cfg.rst_reas[1] = "POWERON_RESET"
  /\ cfg.rst_reas[2] = "TG0WDT_SYS_RESET"

====
